---- MODULE Spec2Model ----
(***************************************************************************)
(* Model of the mention aggregation and alerting pipeline of ai-scraper:   *)
(* validate_mention_data, deduplicate_mentions, sort_mentions_by_timestamp *)
(* and get_mentions_summary (src/scrapers/data_processor.py),              *)
(* analyze_sentiment and calculate_sentiment_threshold                     *)
(* (src/analyze/sentiment.py), and main (src/run_all.py).                  *)
(*                                                                         *)
(* Python text is modelled as a sequence of one-character strings, so that *)
(* strip, lower, replace, concatenation and the substring test are         *)
(* computed.  A Python value is a record [t, v]: t is the type tag ("str", *)
(* "none", "int", "num", or "missing" for a key the dict does not hold)    *)
(* and v its payload.                                                      *)
(***************************************************************************)
EXTENDS Integers, Sequences, FiniteSets, TLC

VARIABLES
    \* validate_mention_data called on one mention
    vmention, vresult, vpc,
    \* deduplicate_mentions: argument, loop position, locals, result
    all_mentions, idx, seen_ids, seen_content_hashes, deduplicated,
    duplicates_by_id, duplicates_by_content, outcome, run, pc,
    \* calculate_sentiment_threshold: arguments and returned tuple
    sentiment_results, threshold, tresult, tpc,
    \* main: position, locals of the sentiment stage, loop index of the merge
    mpc, sorted_mentions, main_sentiment_results, analyzed_mentions, merge_i,
    \* main: what each scraper and the classifier do in this run, the collected
    \* list, the sources attempted, the argument deduplicate_mentions was given,
    \* its result, the summary, the rows handed to the sheet, the exit status,
    \* the alert messages handed to the transport
    scrapers, classifier, main_all_mentions, attempted, dedup_argument,
    deduplicated_mentions, main_summary, sheet_rows, exit_status, alerts,
    \* main: what the sheet functions returned and were handed, and what was
    \* written to analyzed_mentions.json
    sheet_status, analyzed_file,
    \* sort_mentions_by_timestamp: arguments and returned list
    sort_mentions, reverse, sort_returned, spc,
    \* get_mentions_summary: argument and returned summary
    summary_mentions, summary, upc,
    \* analyze_sentiment: argument, behaviour of the model, returned list
    texts, analyzer, analyze_results, apc,
    \* format_alert_message and send_slack_alert: arguments, what the webhook
    \* does, the payload built, the payload posted, the returned value
    alert_ratio, alert_top, alert_total, webhook, payload, posted, sent, fpc,
    \* format_data_for_sheets: argument and returned rows
    sheet_data, formatted_rows, hpc,
    \* two callers of the processing functions: the dict objects by address,
    \* each caller's list object, its position, what its calls returned, the
    \* clock, and the objects and lists as they were handed over
    heap, call_lists, call_stage, call_results, clock_now, heap_given

validateVars == <<vmention, vresult, vpc>>
dedupVars == <<all_mentions, idx, seen_ids, seen_content_hashes, deduplicated,
               duplicates_by_id, duplicates_by_content, outcome, run, pc>>
thresholdVars == <<sentiment_results, threshold, tresult, tpc>>
outputVars == <<sheet_status, analyzed_file>>
\* what the merge loop of main leaves alone
mainRunVars == <<scrapers, classifier, main_all_mentions, attempted,
                 dedup_argument, deduplicated_mentions, main_summary,
                 sheet_rows, exit_status, alerts, outputVars>>
mainVars == <<mpc, sorted_mentions, main_sentiment_results, analyzed_mentions,
              merge_i, mainRunVars>>
sortVars == <<sort_mentions, reverse, sort_returned, spc>>
summaryVars == <<summary_mentions, summary, upc>>
analyzeVars == <<texts, analyzer, analyze_results, apc>>
alertVars == <<alert_ratio, alert_top, alert_total, webhook, payload, posted,
               sent, fpc>>
sheetVars == <<sheet_data, formatted_rows, hpc>>
sinkVars == <<alertVars, sheetVars>>
frameVars == <<heap, call_lists, call_stage, call_results, clock_now, heap_given>>
\* everything outside the three functions above
pipelineVars == <<mainVars, sortVars, summaryVars, analyzeVars, sinkVars,
                  frameVars>>
coreVars == <<validateVars, dedupVars, thresholdVars>>
notMain == <<coreVars, sortVars, summaryVars, analyzeVars, sinkVars,
             frameVars>>
notSort == <<coreVars, mainVars, summaryVars, analyzeVars, sinkVars,
             frameVars>>
notSummary == <<coreVars, mainVars, sortVars, analyzeVars, sinkVars,
             frameVars>>
notAnalyze == <<coreVars, mainVars, sortVars, summaryVars, sinkVars,
             frameVars>>
notAlert == <<coreVars, mainVars, sortVars, summaryVars, analyzeVars, sheetVars,
             frameVars>>
notSheet == <<coreVars, mainVars, sortVars, summaryVars, analyzeVars, alertVars,
             frameVars>>
notFrame == <<coreVars, mainVars, sortVars, summaryVars, analyzeVars, sinkVars>>
vars == <<validateVars, dedupVars, thresholdVars, pipelineVars>>

-----------------------------------------------------------------------------
(* Text *)

Rep(c, n) == [i \in 1..n |-> c]

IsSpace(c) == c \in {" ", "\n", "\t"}

\* str.strip(): leading and trailing whitespace removed
Strip(s) ==
    IF \A i \in 1..Len(s) : IsSpace(s[i]) THEN <<>>
    ELSE LET first == CHOOSE i \in 1..Len(s) :
                          ~IsSpace(s[i]) /\ \A j \in 1..(i - 1) : IsSpace(s[j])
             last  == CHOOSE i \in 1..Len(s) :
                          ~IsSpace(s[i]) /\ \A j \in (i + 1)..Len(s) : IsSpace(s[j])
         IN  SubSeq(s, first, last)

LowerChar(c) ==
    CASE c = "A" -> "a" [] c = "B" -> "b" [] c = "E" -> "e" [] c = "G" -> "g"
      [] c = "I" -> "i" [] c = "N" -> "n" [] c = "T" -> "t" [] c = "V" -> "v"
      [] c = "L" -> "l" [] c = "O" -> "o" [] c = "P" -> "p" [] c = "R" -> "r"
      [] c = "S" -> "s" [] c = "U" -> "u"
      [] OTHER -> c

\* str.lower()
Lower(s) == [i \in 1..Len(s) |-> LowerChar(s[i])]

\* sub in s
Contains(sub, s) ==
    \E i \in 1..(Len(s) - Len(sub) + 1) : SubSeq(s, i, i + Len(sub) - 1) = sub

RECURSIVE Replace(_, _, _)
\* s.replace(c, r) for a one-character c
Replace(s, c, r) ==
    IF s = <<>> THEN <<>>
    ELSE (IF Head(s) = c THEN r ELSE <<Head(s)>>) \o Replace(Tail(s), c, r)

-----------------------------------------------------------------------------
(* Python values *)

PyStr(s) == [t |-> "str", v |-> s]
PyInt(digits) == [t |-> "int", v |-> digits]
PyNone == [t |-> "none", v |-> <<>>]
Missing == [t |-> "missing", v |-> <<>>]

\* dict.get(key, default)
Get(d, key, default) == IF d[key].t = "missing" THEN default ELSE d[key]

\* bool(x) of a value the dict holds
Truthy(x) ==
    CASE x.t = "str" -> x.v # <<>>
      [] x.t = "int" -> x.v # <<"0">>
      [] OTHER -> FALSE

\* str(x), as an f-string renders it
Str(x) ==
    CASE x.t = "none" -> <<"N", "o", "n", "e">>
      [] OTHER -> x.v

-----------------------------------------------------------------------------
(* datetime.fromisoformat *)

IsDigit(c) == c \in {"0", "1", "2", "3", "4", "5", "6", "7", "8", "9"}

DigitVal(c) ==
    CASE c = "0" -> 0 [] c = "1" -> 1 [] c = "2" -> 2 [] c = "3" -> 3
      [] c = "4" -> 4 [] c = "5" -> 5 [] c = "6" -> 6 [] c = "7" -> 7
      [] c = "8" -> 8 [] c = "9" -> 9 [] OTHER -> 0

AllDigits(s) == \A i \in 1..Len(s) : IsDigit(s[i])

RECURSIVE ToInt(_)
ToInt(s) == IF s = <<>> THEN 0
            ELSE 10 * ToInt(SubSeq(s, 1, Len(s) - 1)) + DigitVal(s[Len(s)])

IsLeap(y) == (y % 4 = 0 /\ y % 100 # 0) \/ y % 400 = 0

DaysInMonth(y, m) ==
    CASE m \in {4, 6, 9, 11} -> 30
      [] m = 2 -> IF IsLeap(y) THEN 29 ELSE 28
      [] OTHER -> 31

\* days since 1970-01-01 of a Gregorian date
DaysFromCivil(y, m, d) ==
    LET yy  == IF m <= 2 THEN y - 1 ELSE y
        era == yy \div 400
        yoe == yy - era * 400
        mp  == (m + 9) % 12
        doy == (153 * mp + 2) \div 5 + d - 1
        doe == yoe * 365 + yoe \div 4 - yoe \div 100 + doy
    IN  era * 146097 + doe - 719468

BadDate == [ok |-> FALSE, aware |-> FALSE, day |-> 0, sec |-> 0, usec |-> 0]

\* YYYY-MM-DD
ParseDate(s) ==
    IF /\ Len(s) = 10
       /\ s[5] = "-" /\ s[8] = "-"
       /\ AllDigits(SubSeq(s, 1, 4)) /\ AllDigits(SubSeq(s, 6, 7))
       /\ AllDigits(SubSeq(s, 9, 10))
    THEN LET y == ToInt(SubSeq(s, 1, 4))
             m == ToInt(SubSeq(s, 6, 7))
             d == ToInt(SubSeq(s, 9, 10))
         IN  IF y >= 1 /\ m \in 1..12 /\ d >= 1 /\ d <= DaysInMonth(y, m)
             THEN [ok |-> TRUE, day |-> DaysFromCivil(y, m, d)]
             ELSE [ok |-> FALSE, day |-> 0]
    ELSE [ok |-> FALSE, day |-> 0]

\* HH[:MM[:SS[.fff[fff]]]]
ParseClock(s) ==
    LET n    == Len(s)
        two(i) == IF i + 1 <= n /\ AllDigits(SubSeq(s, i, i + 1))
                  THEN ToInt(SubSeq(s, i, i + 1)) ELSE 99
        hh   == two(1)
        mm   == IF n >= 5 THEN two(4) ELSE 0
        ss   == IF n >= 8 THEN two(7) ELSE 0
        frac == IF n > 9 THEN SubSeq(s, 10, n) ELSE <<>>
        us   == IF n = 12 THEN 1000 * ToInt(frac) ELSE ToInt(frac)
        shape == /\ n \in {2, 5, 8, 12, 15}
                 /\ (n >= 5 => s[3] = ":")
                 /\ (n >= 8 => s[6] = ":")
                 /\ (n >= 12 => s[9] = "." /\ AllDigits(frac))
    IN  IF shape /\ hh < 24 /\ mm < 60 /\ ss < 60
        THEN [ok |-> TRUE, sec |-> hh * 3600 + mm * 60 + ss, usec |-> us]
        ELSE [ok |-> FALSE, sec |-> 0, usec |-> 0]

\* +HH:MM or -HH:MM, in seconds east of UTC
ParseOffset(s) ==
    IF /\ Len(s) = 6 /\ s[1] \in {"+", "-"} /\ s[4] = ":"
       /\ AllDigits(SubSeq(s, 2, 3)) /\ AllDigits(SubSeq(s, 5, 6))
       /\ ToInt(SubSeq(s, 2, 3)) < 24 /\ ToInt(SubSeq(s, 5, 6)) < 60
    THEN LET mag == ToInt(SubSeq(s, 2, 3)) * 3600 + ToInt(SubSeq(s, 5, 6)) * 60
         IN  [ok |-> TRUE, east |-> IF s[1] = "-" THEN 0 - mag ELSE mag]
    ELSE [ok |-> FALSE, east |-> 0]

\* datetime.fromisoformat(s): ok is FALSE where it raises ValueError; an
\* aware value is held as its UTC instant, a naive one as its wall clock.
\* Covers YYYY-MM-DD[*HH[:MM[:SS[.fff[fff]]]][(+|-)HH:MM]].
FromIsoFormat(s) ==
    IF Len(s) < 10 THEN BadDate
    ELSE
      LET date  == ParseDate(SubSeq(s, 1, 10))
          rest  == IF Len(s) > 11 THEN SubSeq(s, 12, Len(s)) ELSE <<>>
          signs == {i \in 1..Len(rest) : rest[i] \in {"+", "-"}}
          cut   == IF signs = {} THEN Len(rest) + 1
                   ELSE CHOOSE i \in signs : \A j \in signs : i <= j
          clock == IF Len(s) = 10 THEN [ok |-> TRUE, sec |-> 0, usec |-> 0]
                   ELSE ParseClock(SubSeq(rest, 1, cut - 1))
          off   == IF signs = {} THEN [ok |-> TRUE, east |-> 0]
                   ELSE ParseOffset(SubSeq(rest, cut, Len(rest)))
          utc   == clock.sec - off.east
      IN  IF date.ok /\ clock.ok /\ off.ok /\ Len(s) # 11
          THEN [ok    |-> TRUE,
                aware |-> signs # {},
                day   |-> date.day + (IF utc < 0 THEN -1
                                      ELSE IF utc >= 86400 THEN 1 ELSE 0),
                sec   |-> (utc + 86400) % 86400,
                usec  |-> clock.usec]
          ELSE BadDate

-----------------------------------------------------------------------------
(* validate_mention_data *)

S_twitter == <<"t", "w", "i", "t", "t", "e", "r">>
S_facebook == <<"f", "a", "c", "e", "b", "o", "o", "k">>
S_google_play == <<"g", "o", "o", "g", "l", "e", "_", "p", "l", "a", "y">>

required_fields == <<"source", "id", "user", "text", "timestamp">>

valid_sources == {PyStr(S_twitter), PyStr(S_facebook), PyStr(S_google_play)}

MinTextLength == 10
MaxTextLength == 5000

\* for field in required_fields: field not in mention or not mention[field]
MissingOrEmpty(mention) ==
    \E k \in 1..Len(required_fields) :
        \/ mention[required_fields[k]].t = "missing"
        \/ ~Truthy(mention[required_fields[k]])

\* the try block: .replace on a non-string raises AttributeError,
\* fromisoformat raises ValueError; both are caught
TimestampOk(ts) ==
    /\ ts.t = "str"
    /\ FromIsoFormat(Replace(ts.v, "Z", <<"+", "0", "0", ":", "0", "0">>)).ok

TextTooLong_OffByOne(text_length) == text_length >= MaxTextLength

TextTooLong(text_length) == text_length > MaxTextLength

\* "True", "False", or "raise" when an exception leaves the function
validate_mention_data(mention) ==
    IF MissingOrEmpty(mention) THEN "False"
    ELSE IF mention.source \notin valid_sources THEN "False"
    ELSE IF ~TimestampOk(mention.timestamp) THEN "False"
    ELSE IF mention.text.t # "str" THEN "raise"
    ELSE LET text_length == Len(Strip(mention.text.v))
         IN  IF text_length < MinTextLength THEN "False"
             ELSE IF TextTooLong(text_length) THEN "False"
             ELSE "True"

-----------------------------------------------------------------------------
(* Inputs of validate_mention_data *)

S_google == <<"g", "o", "o", "g", "l", "e">>
S_user == <<"b", "o", "b">>
S_id1 == <<"1">>
S_id2 == <<"2">>

TS_naive == <<"2", "0", "2", "4", "-", "0", "1", "-", "1", "5", "T",
              "1", "0", ":", "3", "0", ":", "0", "0">>
TS_zulu == TS_naive \o <<"Z">>
TS_offset == TS_naive \o <<"-", "0", "5", ":", "0", "0">>
TS_micro == TS_naive \o <<".", "1", "2", "3", "4", "5", "6">>
TS_date == SubSeq(TS_naive, 1, 10)
TS_word == <<"y", "e", "s", "t", "e", "r", "d", "a", "y">>
TS_month13 == <<"2", "0", "2", "4", "-", "1", "3", "-", "0", "1", "T",
                "0", "0", ":", "0", "0", ":", "0", "0">>
TS_feb30 == <<"2", "0", "2", "3", "-", "0", "2", "-", "3", "0">>

ValidateSources ==
    {PyStr(S_twitter), PyStr(S_facebook), PyStr(S_google_play), PyStr(S_google),
     PyStr(<<>>), PyNone, Missing}

ValidateIds == {PyStr(S_id1), PyStr(<<>>), PyInt(<<"7">>), Missing}

ValidateUsers == {PyStr(S_user), PyStr(<<>>), PyNone}

ValidateTexts ==
    {PyStr(Rep("a", MinTextLength - 1)),
     PyStr(Rep("a", MinTextLength)),
     PyStr(<<" ">> \o Rep("a", MinTextLength - 1) \o <<" ">>),
     PyStr(<<"\n">> \o Rep("a", MinTextLength) \o <<" ", " ">>),
     PyStr(Rep("a", MaxTextLength)),
     PyStr(<<" ">> \o Rep("a", MaxTextLength)),
     PyStr(Rep("a", MaxTextLength + 1)),
     PyStr(Rep(" ", MinTextLength + 2)),
     PyStr(<<>>), PyNone, Missing, PyInt(<<"7">>)}

ValidateTimestamps ==
    {PyStr(TS_naive), PyStr(TS_zulu), PyStr(TS_offset), PyStr(TS_micro),
     PyStr(TS_date), PyStr(TS_word), PyStr(TS_month13), PyStr(TS_feb30),
     PyStr(<<>>), PyNone, Missing, PyInt(<<"7">>)}

ValidateInputs ==
    [source : ValidateSources, id : ValidateIds, user : ValidateUsers,
     text : ValidateTexts, timestamp : ValidateTimestamps]

-----------------------------------------------------------------------------
(* Variables a specification does not use stay at these values *)

ValidateIdle == vmention = Missing /\ vresult = "" /\ vpc = "idle"

DedupIdle ==
    /\ all_mentions = <<>> /\ idx = 0 /\ seen_ids = {}
    /\ seen_content_hashes = <<>> /\ deduplicated = <<>>
    /\ duplicates_by_id = 0 /\ duplicates_by_content = 0
    /\ outcome = <<>> /\ run = 0 /\ pc = "idle"

ThresholdIdle ==
    /\ sentiment_results = <<>> /\ threshold = Missing
    /\ tresult = Missing /\ tpc = "idle"

\* the locals of main before the sentiment stage, for a run started there
MainUnstarted ==
    /\ scrapers = Missing /\ classifier = Missing /\ main_all_mentions = <<>>
    /\ attempted = <<>> /\ dedup_argument = Missing
    /\ deduplicated_mentions = <<>> /\ main_summary = Missing
    /\ sheet_rows = <<>> /\ exit_status = "" /\ alerts = <<>>
    /\ sheet_status = Missing /\ analyzed_file = Missing

MainIdle ==
    /\ mpc = "idle" /\ sorted_mentions = <<>> /\ main_sentiment_results = <<>>
    /\ analyzed_mentions = <<>> /\ merge_i = 0
    /\ MainUnstarted

SortIdle ==
    sort_mentions = <<>> /\ reverse = FALSE /\ sort_returned = Missing /\ spc = "idle"

SummaryIdle == summary_mentions = <<>> /\ summary = Missing /\ upc = "idle"

AnalyzeIdle ==
    texts = <<>> /\ analyzer = Missing /\ analyze_results = <<>> /\ apc = "idle"

AlertIdle ==
    /\ alert_ratio = Missing /\ alert_top = Missing /\ alert_total = 0
    /\ webhook = Missing /\ payload = Missing /\ posted = <<>>
    /\ sent = Missing /\ fpc = "idle"

SheetIdle == sheet_data = <<>> /\ formatted_rows = <<>> /\ hpc = "idle"

SinkIdle == AlertIdle /\ SheetIdle

FrameIdle ==
    /\ heap = <<>> /\ call_lists = <<>> /\ call_stage = <<>>
    /\ call_results = <<>> /\ clock_now = 0 /\ heap_given = Missing

PipelineIdle ==
    MainIdle /\ SortIdle /\ SummaryIdle /\ AnalyzeIdle /\ SinkIdle /\ FrameIdle

-----------------------------------------------------------------------------
(* SpecValidate: validate_mention_data applied to every input *)

InitValidate ==
    /\ vmention \in ValidateInputs
    /\ vresult = ""
    /\ vpc = "call"
    /\ DedupIdle /\ ThresholdIdle /\ PipelineIdle

Validate ==
    /\ vpc = "call"
    /\ vresult' = validate_mention_data(vmention)
    /\ vpc' = "done"
    /\ UNCHANGED <<vmention, dedupVars, thresholdVars, pipelineVars>>

NextValidate == Validate

SpecValidate == InitValidate /\ [][NextValidate]_vars

-----------------------------------------------------------------------------
(* Properties of validate_mention_data *)

IsoTimestamps == {TS_naive, TS_zulu, TS_offset, TS_micro, TS_date}

PresentNonEmpty(x) == x.t \notin {"missing", "none"} /\ x.v # <<>>

WellFormed(m) ==
    /\ \A k \in 1..Len(required_fields) : PresentNonEmpty(m[required_fields[k]])
    /\ m.source.t = "str" /\ m.source.v \in {S_twitter, S_facebook, S_google_play}
    /\ m.timestamp.t = "str" /\ m.timestamp.v \in IsoTimestamps

TrimmedLength(m) == Len(Strip(m.text.v))

\* C6: validate_mention_data returns true exactly when the five required
\* fields are present and non-empty, the source is one of the three known
\* sources, the timestamp is ISO-8601 and the trimmed text is 10 to 5000
\* characters long; with the other fields valid a text of 10 or of 5000
\* characters passes and one of 9 or of 5001 fails.
C6_ValidateExact ==
    vpc = "done" =>
        /\ vresult = "True" <=>
              /\ WellFormed(vmention)
              /\ vmention.text.t = "str"
              /\ TrimmedLength(vmention) >= 10
              /\ TrimmedLength(vmention) <= 5000
        /\ (WellFormed(vmention) /\ vmention.text \in {PyStr(Rep("a", 10)), PyStr(Rep("a", 5000))})
              => vresult = "True"
        /\ (WellFormed(vmention) /\ vmention.text \in {PyStr(Rep("a", 9)), PyStr(Rep("a", 5001))})
              => vresult = "False"

C6_Witness ==
    /\ vpc = "done" /\ vresult = "True"
    /\ vmention.text = PyStr(Rep("a", 5000))

-----------------------------------------------------------------------------
(* deduplicate_mentions *)

SimMarkers ==
    {<<"s", "i", "m", "_">>,
     <<"f", "b", "_", "s", "i", "m", "_">>,
     <<"g", "p", "_", "s", "i", "m", "_">>}

MaxSimulatedCopies == 2

EmptyStr == PyStr(<<>>)

\* f"{mention.get('source', '')}_{mention.get('id', '')}"
MentionId(mention) ==
    Str(Get(mention, "source", EmptyStr)) \o <<"_">> \o Str(Get(mention, "id", EmptyStr))

\* seen_ids.add(mention_id)
RecordId_Forgotten(ids, mention_id) == ids

RecordId(ids, mention_id) == ids \cup {mention_id}

\* mention.get('text', '').strip() raises AttributeError on None or a number
TextRaises(mention) == Get(mention, "text", EmptyStr).t # "str"

\* mention.get('text', '').strip().lower()
TextContent(mention) == Lower(Strip(Get(mention, "text", EmptyStr).v))

\* hashlib.md5(text_content.encode('utf-8')).hexdigest(): the digest is held
\* as the text it was taken of (distinct texts of the model, distinct digests)
ContentHash(text_content) == <<"md5", text_content>>

\* sim_marker in mention.get('id', '') raises TypeError on None or a number
MarkerRaises(mention) == Get(mention, "id", EmptyStr).t # "str"

\* any(sim_marker in mention.get('id', '') for sim_marker in [...])
IsSimulated(mention) ==
    \E sim_marker \in SimMarkers : Contains(sim_marker, Get(mention, "id", EmptyStr).v)

\* seen_content_hashes.get(content_hash, 0)
CountOf(hashes, content_hash) ==
    IF content_hash \in DOMAIN hashes THEN hashes[content_hash] ELSE 0

ContentStep_KeepsThird(mention, hashes) ==
    LET content_hash  == ContentHash(TextContent(mention))
        current_count == CountOf(hashes, content_hash)
    IN  IF IsSimulated(mention)
        THEN IF current_count > MaxSimulatedCopies
             THEN [duplicate |-> TRUE, hashes |-> hashes]
             ELSE [duplicate |-> FALSE,
                   hashes |-> (content_hash :> (current_count + 1)) @@ hashes]
        ELSE IF content_hash \in DOMAIN hashes
             THEN [duplicate |-> TRUE, hashes |-> hashes]
             ELSE [duplicate |-> FALSE, hashes |-> (content_hash :> 1) @@ hashes]

ContentStep_CountsEveryRepeat(mention, hashes) ==
    LET content_hash  == ContentHash(TextContent(mention))
        current_count == CountOf(hashes, content_hash)
        counted       == (content_hash :> (current_count + 1)) @@ hashes
    IN  IF IsSimulated(mention)
        THEN IF current_count >= MaxSimulatedCopies
             THEN [duplicate |-> TRUE, hashes |-> hashes]
             ELSE [duplicate |-> FALSE, hashes |-> counted]
        ELSE [duplicate |-> current_count = 1, hashes |-> counted]

ContentStep_CountsRealLikeSimulated(mention, hashes) ==
    LET content_hash  == ContentHash(TextContent(mention))
        current_count == CountOf(hashes, content_hash)
    IN  IF current_count >= MaxSimulatedCopies
        THEN [duplicate |-> TRUE, hashes |-> hashes]
        ELSE [duplicate |-> FALSE,
              hashes |-> (content_hash :> (current_count + 1)) @@ hashes]

\* the body of "if text_content:": whether the mention is dropped as a
\* content duplicate, and seen_content_hashes afterwards
ContentStep(mention, hashes) ==
    LET content_hash  == ContentHash(TextContent(mention))
        current_count == CountOf(hashes, content_hash)
    IN  IF IsSimulated(mention)
        THEN IF current_count >= MaxSimulatedCopies
             THEN [duplicate |-> TRUE, hashes |-> hashes]
             ELSE [duplicate |-> FALSE,
                   hashes |-> (content_hash :> (current_count + 1)) @@ hashes]
        ELSE IF content_hash \in DOMAIN hashes
             THEN [duplicate |-> TRUE, hashes |-> hashes]
             ELSE [duplicate |-> FALSE, hashes |-> (content_hash :> 1) @@ hashes]

HashesAfter(mention, hashes) ==
    IF TextContent(mention) = <<>> THEN hashes ELSE ContentStep(mention, hashes).hashes

\* deduplicated.append(mention)
KeepMention_AtFront(kept, mention) == <<mention>> \o kept

KeepMention(kept, mention) == Append(kept, mention)

\* the path one iteration of the for loop takes
Branch(mention, ids, hashes) ==
    IF MentionId(mention) \in ids THEN "identity_duplicate"
    ELSE IF TextRaises(mention) THEN "raise"
    ELSE IF TextContent(mention) # <<>> /\ MarkerRaises(mention) THEN "raise"
    ELSE IF TextContent(mention) # <<>> /\ ContentStep(mention, hashes).duplicate
         THEN "content_duplicate"
    ELSE LET valid == validate_mention_data(mention)
         IN  CASE valid = "True" -> "kept"
               [] valid = "False" -> "invalid"
               [] OTHER -> "raise"

InLoop == pc = "loop" /\ idx <= Len(all_mentions)

Taking(branch) ==
    /\ InLoop
    /\ Branch(all_mentions[idx], seen_ids, seen_content_hashes) = branch
    /\ idx' = idx + 1
    /\ outcome' = Append(outcome, branch)
    /\ UNCHANGED <<all_mentions, run, validateVars, thresholdVars, pipelineVars>>

\* mention_id in seen_ids: duplicates_by_id += 1; continue
IdentityDuplicate ==
    /\ Taking("identity_duplicate")
    /\ duplicates_by_id' = duplicates_by_id + 1
    /\ UNCHANGED <<seen_ids, seen_content_hashes, deduplicated,
                   duplicates_by_content, pc>>

\* duplicates_by_content += 1; continue
ContentDuplicate ==
    /\ Taking("content_duplicate")
    /\ seen_ids' = RecordId(seen_ids, MentionId(all_mentions[idx]))
    /\ seen_content_hashes' = HashesAfter(all_mentions[idx], seen_content_hashes)
    /\ duplicates_by_content' = duplicates_by_content + 1
    /\ UNCHANGED <<deduplicated, duplicates_by_id, pc>>

\* validate_mention_data(mention) is True: deduplicated.append(mention)
Keep ==
    /\ Taking("kept")
    /\ seen_ids' = RecordId(seen_ids, MentionId(all_mentions[idx]))
    /\ seen_content_hashes' = HashesAfter(all_mentions[idx], seen_content_hashes)
    /\ deduplicated' = KeepMention(deduplicated, all_mentions[idx])
    /\ UNCHANGED <<duplicates_by_id, duplicates_by_content, pc>>

SkipInvalid_RecordsNothing ==
    /\ Taking("invalid")
    /\ UNCHANGED <<seen_ids, seen_content_hashes, deduplicated,
                   duplicates_by_id, duplicates_by_content, pc>>

\* validate_mention_data(mention) is False: logged and skipped
SkipInvalid ==
    /\ Taking("invalid")
    /\ seen_ids' = RecordId(seen_ids, MentionId(all_mentions[idx]))
    /\ seen_content_hashes' = HashesAfter(all_mentions[idx], seen_content_hashes)
    /\ UNCHANGED <<deduplicated, duplicates_by_id, duplicates_by_content, pc>>

\* an AttributeError or TypeError leaves the loop and the function
RaiseError ==
    /\ InLoop
    /\ Branch(all_mentions[idx], seen_ids, seen_content_hashes) = "raise"
    /\ seen_ids' = RecordId(seen_ids, MentionId(all_mentions[idx]))
    /\ outcome' = Append(outcome, "raise")
    /\ pc' = "raised"
    /\ UNCHANGED <<all_mentions, idx, seen_content_hashes, deduplicated,
                   duplicates_by_id, duplicates_by_content, run,
                   validateVars, thresholdVars, pipelineVars>>

\* return deduplicated
Return ==
    /\ pc = "loop" /\ idx > Len(all_mentions)
    /\ pc' = "returned"
    /\ UNCHANGED <<all_mentions, idx, seen_ids, seen_content_hashes, deduplicated,
                   duplicates_by_id, duplicates_by_content, outcome, run,
                   validateVars, thresholdVars, pipelineVars>>

\* the locals of a fresh call on the argument given
Called(argument, n) ==
    /\ all_mentions = argument
    /\ idx = 1
    /\ seen_ids = {}
    /\ seen_content_hashes = <<>>
    /\ deduplicated = <<>>
    /\ duplicates_by_id = 0
    /\ duplicates_by_content = 0
    /\ outcome = <<>>
    /\ run = n
    /\ pc = "loop"

\* deduplicate_mentions called on the list the first call returned
CallAgain ==
    /\ pc = "returned" /\ run = 1
    /\ all_mentions' = deduplicated
    /\ idx' = 1
    /\ seen_ids' = {}
    /\ seen_content_hashes' = <<>>
    /\ deduplicated' = <<>>
    /\ duplicates_by_id' = 0
    /\ duplicates_by_content' = 0
    /\ outcome' = <<>>
    /\ run' = 2
    /\ pc' = "loop"
    /\ UNCHANGED <<validateVars, thresholdVars, pipelineVars>>

-----------------------------------------------------------------------------
(* Inputs of deduplicate_mentions *)

MaxMentions == 3

TX_a == Rep("a", MinTextLength)
TX_A == <<" ">> \o Rep("A", MinTextLength) \o <<" ">>
TX_b == Rep("b", MinTextLength + 2)

S_id3 == <<"3">>
S_id4 == <<"4">>
S_play_1 == <<"p", "l", "a", "y", "_", "1">>
S_sim_1 == <<"s", "i", "m", "_", "1">>
S_fb_sim_2 == <<"f", "b", "_", "s", "i", "m", "_", "2">>
S_gp_sim_3 == <<"g", "p", "_", "s", "i", "m", "_", "3">>

Mention(source, id, text, timestamp) ==
    [source |-> source, id |-> id, user |-> PyStr(S_user), text |-> text,
     timestamp |-> timestamp]

DedupPool ==
    {Mention(PyStr(S_twitter), PyStr(S_id1), PyStr(TX_a), PyStr(TS_naive)),
     Mention(PyStr(S_twitter), PyStr(S_id1), PyStr(TX_b), PyStr(TS_naive)),
     Mention(PyStr(S_twitter), PyStr(S_id2), PyStr(TX_A), PyStr(TS_zulu)),
     Mention(PyStr(S_google_play), PyStr(S_id1), PyStr(TX_a), PyStr(TS_naive)),
     Mention(PyStr(S_facebook), PyStr(S_id2), PyStr(TX_a), PyStr(TS_naive)),
     Mention(PyStr(S_google), PyStr(S_play_1), PyStr(TX_b), PyStr(TS_naive)),
     Mention(PyStr(S_twitter), PyStr(S_sim_1), PyStr(TX_a), PyStr(TS_naive)),
     Mention(PyStr(S_facebook), PyStr(S_fb_sim_2), PyStr(TX_a), PyStr(TS_naive)),
     Mention(PyStr(S_google_play), PyStr(S_gp_sim_3), PyStr(TX_a), PyStr(TS_naive)),
     Mention(PyStr(S_twitter), PyStr(S_id3), PyStr(TX_a), PyStr(TS_word)),
     Mention(PyStr(S_twitter), PyStr(S_id3), PyStr(TX_b), PyStr(TS_naive)),
     Mention(PyStr(S_twitter), PyStr(S_id4), PyNone, PyStr(TS_naive)),
     Mention(PyStr(S_twitter), PyInt(<<"7">>), PyStr(TX_b), PyStr(TS_naive)),
     Mention(PyStr(S_twitter), PyNone, Missing, PyStr(TS_naive))}

SeqsUpTo(S, n) == UNION {[1..k -> S] : k \in 0..n}

-----------------------------------------------------------------------------
(* Spec: deduplicate_mentions run on every input, then on its own output *)

Init ==
    /\ \E argument \in SeqsUpTo(DedupPool, MaxMentions) : Called(argument, 1)
    /\ ValidateIdle /\ ThresholdIdle /\ PipelineIdle

Next ==
    \/ IdentityDuplicate
    \/ ContentDuplicate
    \/ Keep
    \/ SkipInvalid
    \/ RaiseError
    \/ Return
    \/ CallAgain

Spec == Init /\ [][Next]_vars

-----------------------------------------------------------------------------
(* Properties of deduplicate_mentions *)

SameIdentity(a, b) == a.source = b.source /\ a.id = b.id

\* the ids the glossary calls synthetic: one of the three markers occurs in it
CarriesMarker(m) ==
    /\ m.id.t = "str"
    /\ \E marker \in SimMarkers : Contains(marker, m.id.v)

RECURSIVE IsSubsequence(_, _)
IsSubsequence(a, b) ==
    IF a = <<>> THEN TRUE
    ELSE IF b = <<>> THEN FALSE
    ELSE IF Head(a) = Head(b) THEN IsSubsequence(Tail(a), Tail(b))
    ELSE IsSubsequence(a, Tail(b))

\* C1: the list deduplicate_mentions returns holds no two records with the
\* same (source, id) pair.
C1_UniqueIdentity ==
    pc = "returned" =>
        \A i, j \in 1..Len(deduplicated) :
            i # j => ~SameIdentity(deduplicated[i], deduplicated[j])

C1_Witness ==
    /\ pc = "returned" /\ run = 1
    /\ Len(deduplicated) = 2
    /\ \E i, j \in 1..Len(all_mentions) :
          /\ i < j
          /\ SameIdentity(all_mentions[i], all_mentions[j])
          /\ all_mentions[i].text # all_mentions[j].text
          /\ outcome[i] = "kept"

\* C2: deduplicate_mentions run on the list it returned gives that list
\* again: every record is kept, none is dropped.
C2_Idempotent ==
    (pc = "returned" /\ run = 2) =>
        /\ deduplicated = all_mentions
        /\ \A i \in 1..Len(outcome) : outcome[i] = "kept"

C2_Witness ==
    /\ pc = "returned" /\ run = 2
    /\ Len(deduplicated) = 3
    /\ \E i, j \in 1..Len(all_mentions) :
          /\ CarriesMarker(all_mentions[i]) /\ ~CarriesMarker(all_mentions[j])
          /\ TextContent(all_mentions[i]) = TextContent(all_mentions[j])

ThreeAlike ==
    /\ pc = "returned"
    /\ Len(all_mentions) = 3
    /\ \A i \in 1..3 : validate_mention_data(all_mentions[i]) = "True"
    /\ \A i, j \in 1..3 : i # j => ~SameIdentity(all_mentions[i], all_mentions[j])
    /\ \A i, j \in 1..3 : all_mentions[i].text = all_mentions[j].text

\* C3: of three valid records with distinct identities and identical text,
\* the first two survive when all three ids carry a synthetic marker, and
\* only the first survives when none does.
C3_SyntheticRelaxation ==
    ThreeAlike =>
        /\ (\A i \in 1..3 : CarriesMarker(all_mentions[i]))
              => deduplicated = SubSeq(all_mentions, 1, 2)
        /\ (\A i \in 1..3 : ~CarriesMarker(all_mentions[i]))
              => deduplicated = SubSeq(all_mentions, 1, 1)

C3_Witness ==
    /\ ThreeAlike
    /\ \A i \in 1..3 : CarriesMarker(all_mentions[i])
    /\ Len(deduplicated) = 2
    /\ outcome = <<"kept", "kept", "content_duplicate">>

\* C4: an item is dropped as an identity duplicate exactly when an earlier
\* item of the input has the same source and the same id.
C4_IdentityDuplicateExact ==
    \A i \in 1..Len(outcome) :
        outcome[i] = "identity_duplicate" <=>
            \E j \in 1..(i - 1) : SameIdentity(all_mentions[j], all_mentions[i])

\* C5: the returned list is a subsequence of the input: input records only,
\* in their input order.
C5_Subsequence ==
    pc = "returned" => IsSubsequence(deduplicated, all_mentions)

C5_Witness ==
    /\ pc = "returned" /\ run = 1
    /\ Len(deduplicated) = 2
    /\ Len(all_mentions) = 3
    /\ deduplicated[1] # deduplicated[2]

\* C7: deduplicate_mentions raises no exception, whatever records the input
\* holds.
C7_NeverRaises == pc # "raised"

-----------------------------------------------------------------------------
(* calculate_sentiment_threshold *)

\* a float: scores in thousandths, the threshold as the fraction n/d it
\* denotes (with the small counts of the model, comparing the floats
\* negative_count / total_mentions and n/d is comparing the fractions)
PyNum(n) == [t |-> "num", v |-> <<n>>]
PyRatio(n, d) == [t |-> "num", v |-> <<n, d>>]

S_negative == <<"n", "e", "g", "a", "t", "i", "v", "e">>
S_NEGATIVE == <<"N", "E", "G", "A", "T", "I", "V", "E">>
S_positive == <<"p", "o", "s", "i", "t", "i", "v", "e">>

TopCount == 3

\* (False, 0.0, []); caught tells whether the except block produced it
SafeDefault(caught) ==
    [crossed |-> FALSE, ratio |-> <<0, 1>>, top |-> <<>>, caught |-> caught]

IsCounted_IgnoresScore(mention) ==
    Truthy(Get(mention, "sentiment_label", PyNone))

\* if sentiment_label and sentiment_score is not None
IsCounted(mention) ==
    /\ Truthy(Get(mention, "sentiment_label", PyNone))
    /\ Get(mention, "sentiment_score", PyNone).t # "none"

\* mention.get raises AttributeError on an element that is no dict
GetRaises(mention) == DOMAIN mention = {"t", "v"}

\* sentiment_label.lower() raises AttributeError on a label that is no text
LabelRaises(mention) == Get(mention, "sentiment_label", PyNone).t # "str"

\* sentiment_label.lower() == 'negative'
IsNegative(mention) == Lower(Get(mention, "sentiment_label", PyNone).v) = S_negative

\* the counted mentions, in input order (total_mentions is their number)
CountedMentions(results) == SelectSeq(results, IsCounted)

\* negative_mentions
NegativeMentions(results) == SelectSeq(CountedMentions(results), IsNegative)

NoValidResults_Unchecked(total_mentions) == FALSE

\* if total_mentions == 0
NoValidResults(total_mentions) == total_mentions = 0

ThresholdCrossed_Strict(negative_count, total_mentions, limit) ==
    negative_count * limit.v[2] > limit.v[1] * total_mentions

\* negative_percentage >= threshold
ThresholdCrossed(negative_count, total_mentions, limit) ==
    negative_count * limit.v[2] >= limit.v[1] * total_mentions

\* x.get('sentiment_score', 0.0)
ScoreKey(mention) == Get(mention, "sentiment_score", PyNum(0))

RECURSIVE InsertByScore_BeforeEqual(_, _)
InsertByScore_BeforeEqual(sorted, m) ==
    IF sorted = <<>> THEN <<m>>
    ELSE IF ScoreKey(m).v[1] <= ScoreKey(Head(sorted)).v[1] THEN <<m>> \o sorted
    ELSE <<Head(sorted)>> \o InsertByScore_BeforeEqual(Tail(sorted), m)

RECURSIVE InsertByScore(_, _)
\* m placed behind every element whose score is not greater
InsertByScore(sorted, m) ==
    IF sorted = <<>> THEN <<m>>
    ELSE IF ScoreKey(m).v[1] < ScoreKey(Head(sorted)).v[1] THEN <<m>> \o sorted
    ELSE <<Head(sorted)>> \o InsertByScore(Tail(sorted), m)

RECURSIVE SortByScore(_)
\* sorted(negative_mentions, key=..., reverse=False): ascending and stable
SortByScore(mentions) ==
    IF mentions = <<>> THEN <<>>
    ELSE InsertByScore(SortByScore(SubSeq(mentions, 1, Len(mentions) - 1)),
                       mentions[Len(mentions)])

\* two keys that < accepts: two numbers or two texts
Comparable(a, b) == a.t = b.t /\ a.t \in {"num", "str"}

\* sorted raises TypeError when two keys cannot be compared
SortRaises(mentions) ==
    \E i, j \in 1..Len(mentions) :
        i # j /\ ~Comparable(ScoreKey(mentions[i]), ScoreKey(mentions[j]))

\* sorted_negative[:3]
FirstN(s, n) == SubSeq(s, 1, IF Len(s) < n THEN Len(s) ELSE n)

\* the body of the try block
ThresholdBody(results, limit) ==
    LET counted == CountedMentions(results)
        total_mentions == Len(counted)
        negative_mentions == NegativeMentions(results)
        negative_count == Len(negative_mentions)
    IN  IF \E i \in 1..Len(results) : GetRaises(results[i]) THEN SafeDefault(TRUE)
        ELSE IF \E i \in 1..Len(counted) : LabelRaises(counted[i]) THEN SafeDefault(TRUE)
        ELSE IF NoValidResults(total_mentions) THEN SafeDefault(FALSE)
        ELSE IF total_mentions = 0 THEN SafeDefault(TRUE)  \* ZeroDivisionError
        ELSE IF ThresholdCrossed(negative_count, total_mentions, limit)
             THEN IF SortRaises(negative_mentions) THEN SafeDefault(TRUE)
                  ELSE [crossed |-> TRUE,
                        ratio |-> <<negative_count, total_mentions>>,
                        top |-> FirstN(SortByScore(negative_mentions), TopCount),
                        caught |-> FALSE]
             ELSE [crossed |-> FALSE,
                   ratio |-> <<negative_count, total_mentions>>,
                   top |-> <<>>,
                   caught |-> FALSE]

\* the returned tuple (threshold_crossed, negative_percentage,
\* top_negative_mentions), or "raise" when the log line ahead of the try
\* block cannot format the threshold
calculate_sentiment_threshold(results, limit) ==
    IF limit.t # "num" THEN "raise"
    ELSE IF results = <<>> THEN SafeDefault(FALSE)
    ELSE ThresholdBody(results, limit)

\* a list object
PyList(s) == [t |-> "list", v |-> s]

\* the log line ahead of the try block takes len(sentiment_results) and
\* formats threshold as a percentage: TypeError on None, outside the try
CallRaises(argument, limit) == argument.t # "list" \/ limit.t # "num"

-----------------------------------------------------------------------------
(* Inputs of calculate_sentiment_threshold *)

MaxResults == 4

Scored(name, label, score) ==
    [id |-> PyStr(name), sentiment_label |-> label, sentiment_score |-> score]

R_neg_upper == Scored(<<"1">>, PyStr(S_NEGATIVE), PyNum(900))
R_neg_low   == Scored(<<"2">>, PyStr(S_negative), PyNum(100))
R_neg_tie   == Scored(<<"3">>, PyStr(S_negative), PyNum(100))
R_positive  == Scored(<<"4">>, PyStr(S_positive), PyNum(800))
R_no_label  == Scored(<<"5">>, Missing, PyNum(300))
R_no_score  == Scored(<<"6">>, PyStr(S_negative), PyNone)
R_empty     == Scored(<<"7">>, PyStr(<<>>), PyNum(400))
R_neg_mid    == Scored(<<"8">>, PyStr(S_negative), PyNum(500))
R_neg_third  == Scored(<<"9">>, PyStr(S_negative), PyNum(300))
R_neg_strong == Scored(<<"1", "0">>, PyStr(S_negative), PyNum(700))

ThresholdPool ==
    {R_neg_upper, R_neg_low, R_neg_tie, R_positive, R_no_label, R_no_score, R_empty}

\* 0.0, the default 0.20, 0.5 and 1.0
Thresholds == {PyRatio(0, 1), PyRatio(1, 5), PyRatio(1, 2), PyRatio(1, 1)}

\* ten counted mentions, two of them negative
TenWithTwoNegative ==
    <<R_positive, R_neg_low>> \o Rep(R_positive, 7) \o <<R_neg_upper>>

\* five negative mentions scored 0.9, 0.1, 0.5, 0.3, 0.7
FiveNegatives == <<R_neg_upper, R_neg_low, R_neg_mid, R_neg_third, R_neg_strong>>

-----------------------------------------------------------------------------
(* SpecThreshold: calculate_sentiment_threshold applied to every input *)

InitThreshold ==
    /\ sentiment_results \in SeqsUpTo(ThresholdPool, MaxResults)
                               \cup {TenWithTwoNegative, FiveNegatives}
    /\ threshold \in Thresholds
    /\ tresult = Missing
    /\ tpc = "call"
    /\ ValidateIdle /\ DedupIdle /\ PipelineIdle

Evaluate ==
    /\ tpc = "call"
    /\ tresult' = calculate_sentiment_threshold(sentiment_results, threshold)
    /\ tpc' = "done"
    /\ UNCHANGED <<sentiment_results, threshold, validateVars, dedupVars, pipelineVars>>

NextThreshold == Evaluate

SpecThreshold == InitThreshold /\ [][NextThreshold]_vars

-----------------------------------------------------------------------------
(* Properties of calculate_sentiment_threshold *)

\* a mention with a non-empty sentiment_label and a non-null sentiment_score
HasLabelAndScore(m) ==
    /\ m.sentiment_label.t = "str" /\ m.sentiment_label.v # <<>>
    /\ m.sentiment_score.t = "num"

counted_total == Len(SelectSeq(sentiment_results, HasLabelAndScore))

negative_count ==
    Len(SelectSeq(sentiment_results,
                  LAMBDA m : HasLabelAndScore(m)
                             /\ m.sentiment_label.v \in {S_negative, S_NEGATIVE}))

\* C8: with counted_total > 0, threshold_crossed is true exactly when
\* negative_count / counted_total >= threshold; 2 negative of 10 counted at
\* threshold 0.20 is crossed.
C8_InclusiveThreshold ==
    (tpc = "done" /\ counted_total > 0) =>
        /\ tresult.crossed <=>
              negative_count * threshold.v[2] >= threshold.v[1] * counted_total
        /\ (counted_total = 10 /\ negative_count = 2 /\ threshold = PyRatio(1, 5))
              => tresult.crossed

C8_Witness ==
    /\ tpc = "done"
    /\ counted_total = 10 /\ negative_count = 2 /\ threshold = PyRatio(1, 5)
    /\ tresult.crossed

\* C9: only mentions with a non-empty label and a non-null score enter the
\* negative count and the total; the ratio is that of the input with every
\* other mention removed.
C9_OnlyScoredCount ==
    tpc = "done" =>
        LET scored_only == SelectSeq(sentiment_results, HasLabelAndScore)
            alone == calculate_sentiment_threshold(scored_only, threshold)
        IN  /\ tresult.ratio[1] * alone.ratio[2] = alone.ratio[1] * tresult.ratio[2]
            /\ tresult.crossed = alone.crossed
            /\ counted_total > 0 => tresult.ratio = <<negative_count, counted_total>>

C9_Witness ==
    /\ tpc = "done"
    /\ tresult.ratio = <<1, 2>>
    /\ \E i \in 1..Len(sentiment_results) : sentiment_results[i] = R_no_score
    /\ \E i \in 1..Len(sentiment_results) : sentiment_results[i] = R_no_label

\* C10: when no mention is counted the result is (false, 0.0, []) for every
\* threshold, and it is not the except block that produced it.
C10_NothingCounted ==
    (tpc = "done" /\ counted_total = 0) => tresult = SafeDefault(FALSE)

C10_Witness ==
    /\ tpc = "done"
    /\ Len(sentiment_results) = 2
    /\ counted_total = 0
    /\ tresult = SafeDefault(FALSE)

\* the counted negative mentions of the input, in input order
counted_negatives ==
    SelectSeq(sentiment_results,
              LAMBDA m : HasLabelAndScore(m)
                         /\ m.sentiment_label.v \in {S_negative, S_NEGATIVE})

\* the place of the i-th counted negative in ascending score order, an equal
\* score ranking behind every earlier one
ScoreRank(negs, i) ==
    Cardinality({j \in 1..Len(negs) :
                    negs[j].sentiment_score.v[1] < negs[i].sentiment_score.v[1]})
    + Cardinality({j \in 1..i :
                    negs[j].sentiment_score.v[1] = negs[i].sentiment_score.v[1]})

\* the first min(3, k) counted negatives in ascending score order
LowestThree(negs) ==
    [p \in 1..(IF Len(negs) < 3 THEN Len(negs) ELSE 3) |->
        negs[CHOOSE i \in 1..Len(negs) : ScoreRank(negs, i) = p]]

\* C11: when the threshold is crossed, top_negative is the first min(3, k) of
\* the k counted negative mentions in ascending sentiment_score order, equal
\* scores in input order; when it is not crossed top_negative is empty; five
\* negatives scored 0.9, 0.1, 0.5, 0.3, 0.7 give those scored 0.1, 0.3, 0.5.
C11_TopNegative ==
    tpc = "done" =>
        /\ tresult.crossed => tresult.top = LowestThree(counted_negatives)
        /\ ~tresult.crossed => tresult.top = <<>>
        /\ sentiment_results = FiveNegatives
              => /\ tresult.crossed
                 /\ tresult.top = <<R_neg_low, R_neg_third, R_neg_mid>>

C11_Witness ==
    /\ tpc = "done"
    /\ tresult.crossed
    /\ Len(counted_negatives) = 4
    /\ tresult.top = <<R_neg_tie, R_neg_low, R_neg_upper>>

-----------------------------------------------------------------------------
(* SpecThresholdAny: calculate_sentiment_threshold called with arguments of
   any type: the list may be None, its elements need not be dicts, labels
   need not be text, scores need not be numbers *)

MaxAnyResults == 3

S_low == <<"l", "o", "w">>

R_int_label  == Scored(<<"1", "1">>, PyInt(<<"7">>), PyNum(200))
R_text_score == Scored(<<"1", "2">>, PyStr(S_negative), PyStr(S_low))

AnyPool == {R_neg_low, R_positive, R_int_label, R_text_score, PyStr(TX_a)}

\* every list of the pool that holds the text-scored mention at most once
AnyInputs ==
    {s \in SeqsUpTo(AnyPool, MaxAnyResults) :
        Cardinality({i \in 1..Len(s) : s[i] = R_text_score}) <= 1}

InitThresholdAny ==
    /\ sentiment_results \in {PyNone} \cup {PyList(s) : s \in AnyInputs}
    /\ threshold \in {PyRatio(1, 5), PyRatio(1, 1), PyNone}
    /\ tresult = Missing
    /\ tpc = "call"
    /\ ValidateIdle /\ DedupIdle /\ PipelineIdle

EvaluateAny ==
    /\ tpc = "call"
    /\ IF CallRaises(sentiment_results, threshold)
       THEN /\ tresult' = Missing
            /\ tpc' = "raised"
       ELSE /\ tresult' = calculate_sentiment_threshold(sentiment_results.v, threshold)
            /\ tpc' = "done"
    /\ UNCHANGED <<sentiment_results, threshold, validateVars, dedupVars, pipelineVars>>

NextThresholdAny == EvaluateAny

SpecThresholdAny == InitThresholdAny /\ [][NextThresholdAny]_vars

\* C12: calculate_sentiment_threshold propagates no exception, whatever the
\* arguments (a null mention list, elements that are no records, labels that
\* are no text, scores that cannot be compared).
C12_NeverPropagates == tpc # "raised"

-----------------------------------------------------------------------------
(* analyze_sentiment *)

S_neutral == <<"n", "e", "u", "t", "r", "a", "l">>
S_LABEL_0 == <<"L", "A", "B", "E", "L", "_", "0">>
S_LABEL_1 == <<"L", "A", "B", "E", "L", "_", "1">>
S_LABEL_2 == <<"L", "A", "B", "E", "L", "_", "2">>
S_label_0 == <<"l", "a", "b", "e", "l", "_", "0">>
S_label_1 == <<"l", "a", "b", "e", "l", "_", "1">>
S_label_2 == <<"l", "a", "b", "e", "l", "_", "2">>
S_joy == <<"j", "o", "y">>

S_failed == <<"f", "a", "i", "l", "e", "d">>
S_empty_text == <<"e", "m", "p", "t", "y", "_", "t", "e", "x", "t">>
S_invalid_text == <<"i", "n", "v", "a", "l", "i", "d", "_", "t", "e", "x", "t">>
S_analysis_failed == <<"a", "n", "a", "l", "y", "s", "i", "s", "_",
                       "f", "a", "i", "l", "e", "d">>

BatchSize == 10
CleanLimit == 500

\* normalize_sentiment_label
normalize_sentiment_label(label) ==
    LET label_lower == Lower(label)
    IN  IF label_lower \in {S_label_2, S_positive} THEN S_positive
        ELSE IF label_lower \in {S_label_1, S_neutral} THEN S_neutral
        ELSE IF label_lower \in {S_label_0, S_negative} THEN S_negative
        ELSE S_neutral

\* clean_text_for_sentiment: "" for what is empty or no text, else stripped
\* and cut to 500 characters plus "..."
clean_text_for_sentiment(text) ==
    IF text.t # "str" \/ text.v = <<>> THEN <<>>
    ELSE LET cleaned == Strip(text.v)
         IN  IF Len(cleaned) > CleanLimit
             THEN SubSeq(cleaned, 1, CleanLimit) \o <<".", ".", ".">>
             ELSE cleaned

\* one result of analyze_sentiment; all_scores and error are Missing when the
\* dict does not hold the key
SentimentResult(label, score, all_scores, error) ==
    [sentiment_label |-> label, sentiment_score |-> score,
     all_scores |-> all_scores, error |-> error]

\* the neutral result the except blocks and the filter give; the error text
\* is held without the exception message that follows it
NeutralResult(error) ==
    SentimentResult(PyStr(S_neutral), PyNum(500), Missing, PyStr(error))

\* what the model answers for one text: a score per label.  The model of
\* this development answers by the first character of the text.
ModelScores(text) ==
    CASE Head(text) \in {"a", "A"} ->
             <<[label |-> S_LABEL_0, score |-> 900],
               [label |-> S_LABEL_1, score |-> 70],
               [label |-> S_LABEL_2, score |-> 30]>>
      [] Head(text) = "b" ->
             <<[label |-> S_LABEL_0, score |-> 50],
               [label |-> S_LABEL_1, score |-> 150],
               [label |-> S_LABEL_2, score |-> 800]>>
      [] OTHER ->
             <<[label |-> S_joy, score |-> 600],
               [label |-> S_LABEL_0, score |-> 200],
               [label |-> S_LABEL_2, score |-> 200]>>

\* max(pred_scores, key=lambda x: x['score']): the first of the highest
BestPrediction(pred_scores) ==
    pred_scores[CHOOSE i \in 1..Len(pred_scores) :
                    /\ \A j \in 1..Len(pred_scores) :
                          pred_scores[j].score <= pred_scores[i].score
                    /\ \A j \in 1..(i - 1) :
                          pred_scores[j].score < pred_scores[i].score]

\* {normalize_sentiment_label(p['label']): round(p['score'], 4) for p in
\* pred_scores}: a later entry of the same label replaces an earlier one
AllScores(pred_scores) ==
    [label \in {normalize_sentiment_label(pred_scores[i].label) :
                    i \in 1..Len(pred_scores)} |->
        LET last == CHOOSE i \in 1..Len(pred_scores) :
                        /\ normalize_sentiment_label(pred_scores[i].label) = label
                        /\ \A j \in (i + 1)..Len(pred_scores) :
                              normalize_sentiment_label(pred_scores[j].label) # label
        IN  PyNum(pred_scores[last].score)]

\* the result stored for a text the model scored (the scores of the model
\* have three decimals, round(.., 4) leaves them as they are)
Prediction(text) ==
    LET pred_scores == ModelScores(text)
        best_pred == BestPrediction(pred_scores)
    IN  SentimentResult(PyStr(normalize_sentiment_label(best_pred.label)),
                        PyNum(best_pred.score),
                        [t |-> "dict", v |-> AllScores(pred_scores)],
                        Missing)

\* cleaned_texts
CleanedTexts(list) == [i \in 1..Len(list) |-> clean_text_for_sentiment(list[i])]

RECURSIVE ValidTexts(_, _)
\* valid_texts: the pairs (i, text) of the texts not empty after strip, from
\* index i on
ValidTexts(cleaned, i) ==
    IF i > Len(cleaned) THEN <<>>
    ELSE (IF Strip(cleaned[i]) # <<>> THEN <<<<i, cleaned[i]>>>> ELSE <<>>)
         \o ValidTexts(cleaned, i + 1)

\* valid_texts[i:i+batch_size] of the k-th round of the loop
Batch(valid_texts, k) ==
    SubSeq(valid_texts, (k - 1) * BatchSize + 1,
           IF k * BatchSize < Len(valid_texts) THEN k * BatchSize
           ELSE Len(valid_texts))

BatchCount(valid_texts) == (Len(valid_texts) + BatchSize - 1) \div BatchSize

BatchResults_ByBatchPlace(batch, k, failing) ==
    {<<(k - 1) * BatchSize + j,
       IF k \in failing THEN NeutralResult(S_analysis_failed)
       ELSE Prediction(batch[j][2])>> : j \in 1..Len(batch)}

\* the entries one round of the loop stores in analyzed_results, keyed by
\* original index: predictions, or neutral results when the batch raised
BatchResults(batch, k, failing) ==
    {<<batch[j][1],
       IF k \in failing THEN NeutralResult(S_analysis_failed)
       ELSE Prediction(batch[j][2])>> : j \in 1..Len(batch)}

\* as if one try block held the whole loop: nothing after a failed batch
AnalyzedResults_StopsAtFailure(valid_texts, failing) ==
    UNION {BatchResults(Batch(valid_texts, k), k, failing) :
               k \in {n \in 1..BatchCount(valid_texts) :
                          \A earlier \in 1..(n - 1) : earlier \notin failing}}

\* analyzed_results after the loop over the batches
AnalyzedResults(valid_texts, failing) ==
    UNION {BatchResults(Batch(valid_texts, k), k, failing) :
               k \in 1..BatchCount(valid_texts)}

\* the returned list.  model.loads is false when get_sentiment_analyzer
\* raises, model.failing holds the batches on which the model raises.
analyze_sentiment(list, model) ==
    IF list = <<>> THEN <<>>
    ELSE IF ~model.loads THEN [i \in 1..Len(list) |-> NeutralResult(S_failed)]
    ELSE LET valid_texts == ValidTexts(CleanedTexts(list), 1)
             analyzed_results == AnalyzedResults(valid_texts, model.failing)
         IN  IF valid_texts = <<>>
             THEN [i \in 1..Len(list) |-> NeutralResult(S_empty_text)]
             ELSE [i \in 1..Len(list) |->
                      IF \E entry \in analyzed_results : entry[1] = i
                      THEN (CHOOSE entry \in analyzed_results : entry[1] = i)[2]
                      ELSE NeutralResult(S_invalid_text)]

-----------------------------------------------------------------------------
(* SpecAnalyze: analyze_sentiment applied to every input *)

MaxTexts == 3

TX_c == Rep("c", MinTextLength)
TX_blank == <<" ", " ">>
TX_long == Rep("b", CleanLimit + 1)

TextPool == {PyStr(TX_a), PyStr(TX_b), PyStr(TX_A), PyStr(<<>>), PyStr(TX_blank), PyNone}

\* twelve texts, eleven of them valid: the model is called on two batches
TwelveTexts ==
    <<PyStr(TX_a), PyStr(TX_blank)>> \o Rep(PyStr(TX_b), 9) \o <<PyStr(TX_a)>>

Models == [loads : BOOLEAN, failing : SUBSET {1, 2}]

InitAnalyze ==
    /\ texts \in SeqsUpTo(TextPool, MaxTexts)
                   \cup {TwelveTexts, <<PyStr(TX_c), PyStr(TX_long)>>}
    /\ analyzer \in Models
    /\ analyze_results = <<>>
    /\ apc = "call"
    /\ ValidateIdle /\ DedupIdle /\ ThresholdIdle /\ SinkIdle /\ FrameIdle
    /\ MainIdle /\ SortIdle /\ SummaryIdle

Analyze ==
    /\ apc = "call"
    /\ analyze_results' = analyze_sentiment(texts, analyzer)
    /\ apc' = "done"
    /\ UNCHANGED <<texts, analyzer, notAnalyze>>

NextAnalyze == Analyze

SpecAnalyze == InitAnalyze /\ [][NextAnalyze]_vars

\* the text has something other than white space in it
IsScorable(text) == text.t = "str" /\ \E i \in 1..Len(text.v) : ~IsSpace(text.v[i])

\* the number of the batch that texts[i] is sent in: ten scorable texts each
BatchNumber(i) ==
    (Cardinality({j \in 1..(i - 1) : IsScorable(texts[j])}) \div BatchSize) + 1

\* the label the model gives to a text, by its first character
LabelFor(text) ==
    CASE Head(Strip(text.v)) \in {"a", "A"} -> S_negative
      [] Head(Strip(text.v)) = "b" -> S_positive
      [] OTHER -> S_neutral

\* C20: analyze_sentiment returns len(texts) results and result i belongs to
\* texts[i]: the label of the model for that text, or neutral / 0.5 for a
\* text that is empty or white space, for a text of a failed batch, and for
\* every text when the model cannot be loaded.
C20_OneResultPerText ==
    apc = "done" =>
        /\ Len(analyze_results) = Len(texts)
        /\ \A i \in 1..Len(texts) :
              IF /\ analyzer.loads
                 /\ IsScorable(texts[i])
                 /\ BatchNumber(i) \notin analyzer.failing
              THEN /\ analyze_results[i].sentiment_label = PyStr(LabelFor(texts[i]))
                   /\ analyze_results[i].error = Missing
              ELSE /\ analyze_results[i].sentiment_label = PyStr(S_neutral)
                   /\ analyze_results[i].sentiment_score = PyNum(500)
                   /\ analyze_results[i].error # Missing

C20_Witness ==
    /\ apc = "done"
    /\ texts = TwelveTexts
    /\ analyzer = [loads |-> TRUE, failing |-> {2}]
    /\ analyze_results[1].sentiment_label = PyStr(S_negative)
    /\ analyze_results[2].error = PyStr(S_invalid_text)
    /\ analyze_results[3].sentiment_label = PyStr(S_positive)
    /\ analyze_results[12].error = PyStr(S_analysis_failed)

\* the batches the loop runs on the scorable texts of the call
BatchesOf(list) ==
    (Cardinality({j \in 1..Len(list) : IsScorable(list[j])}) + BatchSize - 1)
        \div BatchSize

\* C21: the scorable texts are scored ten at a time; when the model raises on
\* a batch, the texts of that batch, and no others, get neutral / 0.5 with the
\* error analysis_failed, every scorable text of another batch has the result
\* made from the scores of the model, and the batches after a failed one are
\* scored.
C21_BatchFailureIsolated ==
    (apc = "done" /\ analyzer.loads) =>
        \A i \in 1..Len(texts) :
            /\ (IsScorable(texts[i]) /\ BatchNumber(i) \in analyzer.failing) =>
                   /\ analyze_results[i].sentiment_label = PyStr(S_neutral)
                   /\ analyze_results[i].sentiment_score = PyNum(500)
                   /\ analyze_results[i].error = PyStr(S_analysis_failed)
            /\ (IsScorable(texts[i]) /\ BatchNumber(i) \notin analyzer.failing) =>
                   analyze_results[i] = Prediction(clean_text_for_sentiment(texts[i]))
            /\ analyze_results[i].error = PyStr(S_analysis_failed) =>
                   (IsScorable(texts[i]) /\ BatchNumber(i) \in analyzer.failing)

\* the first of two batches fails and the second is scored
C21_Witness ==
    /\ apc = "done"
    /\ analyzer = [loads |-> TRUE, failing |-> {1}]
    /\ BatchesOf(texts) = 2
    /\ \A i \in {1} \cup 3..11 : analyze_results[i].error = PyStr(S_analysis_failed)
    /\ analyze_results[2].error = PyStr(S_invalid_text)
    /\ analyze_results[12] = Prediction(TX_a)
    /\ analyze_results[12].sentiment_label = PyStr(S_negative)

-----------------------------------------------------------------------------
(* main: the merge of the sentiment results onto the sorted mentions *)

\* mention.copy() with the sentiment fields set
WithSentiment(mention, label, score, all_scores, error) ==
    [k \in DOMAIN mention \cup {"sentiment_label", "sentiment_score",
                                "sentiment_all_scores", "sentiment_error"} |->
        CASE k = "sentiment_label" -> label
          [] k = "sentiment_score" -> score
          [] k = "sentiment_all_scores" -> all_scores
          [] k = "sentiment_error" -> error
          [] OTHER -> mention[k]]

\* i < len(sentiment_results), i counted from 1 here
HasResult(i, results) == i <= Len(results)

\* the body of the merge loop for the mention at place i
AnnotateMention(mention, i, results) ==
    IF HasResult(i, results)
    THEN LET sentiment_data == results[i]
         IN  WithSentiment(mention,
                 Get(sentiment_data, "sentiment_label", PyStr(S_neutral)),
                 Get(sentiment_data, "sentiment_score", PyNum(500)),
                 sentiment_data.all_scores,
                 sentiment_data.error)
    ELSE WithSentiment(mention, PyStr(S_neutral), PyNum(500), Missing, Missing)

\* if sentiment_results: ... else: logger.error("Sentiment analysis returned
\* no results")
TestResults ==
    /\ mpc = "test_results"
    /\ IF main_sentiment_results # <<>>
       THEN mpc' = "merge" /\ merge_i' = 1
       ELSE mpc' = "no_results" /\ merge_i' = merge_i
    /\ UNCHANGED <<sorted_mentions, main_sentiment_results, analyzed_mentions,
                   mainRunVars, notMain>>

\* for i, mention in enumerate(sorted_mentions): analyzed_mentions.append(...)
MergeOne ==
    /\ mpc = "merge" /\ merge_i <= Len(sorted_mentions)
    /\ analyzed_mentions' =
           Append(analyzed_mentions,
                  AnnotateMention(sorted_mentions[merge_i], merge_i,
                                  main_sentiment_results))
    /\ merge_i' = merge_i + 1
    /\ UNCHANGED <<mpc, sorted_mentions, main_sentiment_results,
                   mainRunVars, notMain>>

\* the loop is exhausted
MergeEnd ==
    /\ mpc = "merge" /\ merge_i > Len(sorted_mentions)
    /\ mpc' = "merged"
    /\ UNCHANGED <<sorted_mentions, main_sentiment_results, analyzed_mentions,
                   merge_i, mainRunVars, notMain>>

\* logger.error("Sentiment analysis returned no results")
NoResults ==
    /\ mpc = "no_results"
    /\ mpc' = "stage4"
    /\ UNCHANGED <<sorted_mentions, main_sentiment_results, analyzed_mentions,
                   merge_i, mainRunVars, notMain>>

-----------------------------------------------------------------------------
(* SpecMerge: the merge run on every pair of mentions and results *)

MaxMerged == 3

Res_negative == Prediction(TX_a)
Res_positive == Prediction(TX_b)
Res_failed   == NeutralResult(S_failed)

MergeMentions ==
    {Mention(PyStr(S_twitter), PyStr(S_id1), PyStr(TX_a), PyStr(TS_naive)),
     Mention(PyStr(S_facebook), PyStr(S_id2), PyStr(TX_b), PyStr(TS_zulu))}

InitMerge ==
    /\ mpc = "test_results"
    /\ sorted_mentions \in SeqsUpTo(MergeMentions, MaxMerged) \ {<<>>}
    /\ main_sentiment_results \in
           SeqsUpTo({Res_negative, Res_positive, Res_failed}, MaxMerged)
    /\ analyzed_mentions = <<>>
    /\ merge_i = 0
    /\ MainUnstarted
    /\ ValidateIdle /\ DedupIdle /\ ThresholdIdle /\ SinkIdle /\ FrameIdle
    /\ SortIdle /\ SummaryIdle /\ AnalyzeIdle

NextMerge == TestResults \/ MergeOne \/ MergeEnd \/ NoResults

SpecMerge == InitMerge /\ [][NextMerge]_vars

\* the mention without the sentiment fields the merge added
Stripped(m) ==
    [k \in DOMAIN m \ {"sentiment_label", "sentiment_score",
                       "sentiment_all_scores", "sentiment_error"} |-> m[k]]

\* the merge has run to its end, or was not entered at all
MergeOver == mpc \in {"merged", "no_results", "save", "stage4"}

\* C13: the merge is positional and length-preserving: one annotated mention
\* per input mention in the same order; mention i carries the label and score
\* of result i when there is one, and 'neutral' and 0.5 otherwise (of 3
\* mentions with 2 results the third is neutral / 0.5).
C13_PositionalMerge ==
    MergeOver =>
        /\ Len(analyzed_mentions) = Len(sorted_mentions)
        /\ \A i \in 1..Len(analyzed_mentions) :
              /\ Stripped(analyzed_mentions[i]) = sorted_mentions[i]
              /\ IF i <= Len(main_sentiment_results)
                 THEN /\ analyzed_mentions[i].sentiment_label
                             = main_sentiment_results[i].sentiment_label
                      /\ analyzed_mentions[i].sentiment_score
                             = main_sentiment_results[i].sentiment_score
                 ELSE /\ analyzed_mentions[i].sentiment_label = PyStr(S_neutral)
                      /\ analyzed_mentions[i].sentiment_score = PyNum(500)

\* the merge is positional and length-preserving whenever there is a result
MergedWhenResults ==
    main_sentiment_results # <<>> => C13_PositionalMerge

-----------------------------------------------------------------------------
(* sort_mentions_by_timestamp *)

TS_epoch == <<"1", "9", "7", "0", "-", "0", "1", "-", "0", "1", "T",
              "0", "0", ":", "0", "0", ":", "0", "0">>

\* x.get('timestamp', '1970-01-01T00:00:00')
KeyText(x) == Get(x, "timestamp", PyStr(TS_epoch))

\* the key function raises: AttributeError on an element that is no dict or
\* a timestamp that is no text, ValueError on a text that does not parse
KeyRaises(x) ==
    \/ GetRaises(x)
    \/ ~TimestampOk(KeyText(x))

\* datetime.fromisoformat(... .replace('Z', '+00:00'))
TimestampKey(x) ==
    FromIsoFormat(Replace(KeyText(x).v, "Z", <<"+", "0", "0", ":", "0", "0">>))

\* a < b of two datetimes that can be compared
Earlier(a, b) ==
    \/ a.day < b.day
    \/ a.day = b.day /\ a.sec < b.sec
    \/ a.day = b.day /\ a.sec = b.sec /\ a.usec < b.usec

\* comparing an offset-naive with an offset-aware datetime raises TypeError
CompareRaises(a, b) == a.aware # b.aware

RECURSIVE InsertByTimestamp_DropsTies(_, _, _)
InsertByTimestamp_DropsTies(sorted, m, descending) ==
    IF sorted = <<>> THEN <<m>>
    ELSE IF TimestampKey(Head(sorted)) = TimestampKey(m) THEN sorted
    ELSE IF \/ descending /\ Earlier(TimestampKey(Head(sorted)), TimestampKey(m))
            \/ ~descending /\ Earlier(TimestampKey(m), TimestampKey(Head(sorted)))
         THEN <<m>> \o sorted
         ELSE <<Head(sorted)>>
                  \o InsertByTimestamp_DropsTies(Tail(sorted), m, descending)

RECURSIVE InsertByTimestamp(_, _, _)
\* m placed behind every element that does not sort after it
InsertByTimestamp(sorted, m, descending) ==
    IF sorted = <<>> THEN <<m>>
    ELSE IF \/ descending /\ Earlier(TimestampKey(Head(sorted)), TimestampKey(m))
            \/ ~descending /\ Earlier(TimestampKey(m), TimestampKey(Head(sorted)))
         THEN <<m>> \o sorted
         ELSE <<Head(sorted)>> \o InsertByTimestamp(Tail(sorted), m, descending)

RECURSIVE SortByTimestamp(_, _)
\* sorted(mentions, key=..., reverse=reverse): stable in both directions
SortByTimestamp(list, descending) ==
    IF list = <<>> THEN <<>>
    ELSE InsertByTimestamp(SortByTimestamp(SubSeq(list, 1, Len(list) - 1), descending),
                           list[Len(list)], descending)

\* an exception inside sorted(): a key that raises, or two keys that cannot
\* be compared
SortFails(list) ==
    \/ \E i \in 1..Len(list) : KeyRaises(list[i])
    \/ \E i, j \in 1..Len(list) :
          CompareRaises(TimestampKey(list[i]), TimestampKey(list[j]))

sort_mentions_by_timestamp_DropsBad(list, descending) ==
    IF SortFails(list)
    THEN [returned |-> SelectSeq(list, LAMBDA x : ~KeyRaises(x)), caught |-> TRUE]
    ELSE [returned |-> SortByTimestamp(list, descending), caught |-> FALSE]

\* the returned list; caught tells whether the except block returned it
sort_mentions_by_timestamp(list, descending) ==
    IF SortFails(list)
    THEN [returned |-> list, caught |-> TRUE]
    ELSE [returned |-> SortByTimestamp(list, descending), caught |-> FALSE]

-----------------------------------------------------------------------------
(* SpecSort: sort_mentions_by_timestamp applied to every input *)

MaxSorted == 3

\* 10:30 UTC written with an offset: the instant of TS_zulu
TS_same_instant == <<"2", "0", "2", "4", "-", "0", "1", "-", "1", "5", "T",
                     "0", "5", ":", "3", "0", ":", "0", "0",
                     "-", "0", "5", ":", "0", "0">>

Stamped(id, timestamp) == Mention(PyStr(S_twitter), PyStr(id), PyStr(TX_a), timestamp)

SortPool ==
    {Stamped(S_id1, PyStr(TS_naive)),
     Stamped(S_id2, PyStr(TS_naive)),
     Stamped(S_id3, PyStr(TS_micro)),
     Stamped(S_id4, PyStr(TS_date)),
     Stamped(S_sim_1, PyStr(TS_zulu)),
     Stamped(S_fb_sim_2, PyStr(TS_same_instant)),
     Stamped(S_gp_sim_3, PyStr(TS_offset)),
     Stamped(S_play_1, PyStr(TS_word)),
     Stamped(S_google, PyNone),
     Stamped(S_user, Missing)}

InitSort ==
    /\ sort_mentions \in SeqsUpTo(SortPool, MaxSorted)
    /\ reverse \in BOOLEAN
    /\ sort_returned = Missing
    /\ spc = "call"
    /\ ValidateIdle /\ DedupIdle /\ ThresholdIdle /\ SinkIdle /\ FrameIdle
    /\ MainIdle /\ SummaryIdle /\ AnalyzeIdle

SortCall ==
    /\ spc = "call"
    /\ sort_returned' = sort_mentions_by_timestamp(sort_mentions, reverse)
    /\ spc' = "done"
    /\ UNCHANGED <<sort_mentions, reverse, notSort>>

NextSort == SortCall

SpecSort == InitSort /\ [][NextSort]_vars

\* the timestamp of the mention parses as ISO-8601 (absent: the epoch default)
Parses(m) == TimestampOk(KeyText(m))

\* b is a rearrangement of a
IsPermutation(a, b) ==
    /\ Len(a) = Len(b)
    /\ \E f \in [1..Len(a) -> 1..Len(a)] :
          /\ \A i, j \in 1..Len(a) : i # j => f[i] # f[j]
          /\ \A i \in 1..Len(a) : b[i] = a[f[i]]

\* the instant of a timestamp as one comparable triple
Instant(m) == <<TimestampKey(m).day, TimestampKey(m).sec, TimestampKey(m).usec>>

SameKind(a, b) == TimestampKey(a).aware = TimestampKey(b).aware

\* a sorts strictly ahead of b in the direction asked for
Ahead(a, b, descending) ==
    IF descending THEN Earlier(TimestampKey(b), TimestampKey(a))
    ELSE Earlier(TimestampKey(a), TimestampKey(b))

\* C17: when every timestamp parses, the result is a permutation of the input
\* ordered by parsed timestamp (newest first when reverse is true), and
\* mentions with equal timestamps keep their input order.
C17_SortedByTimestamp ==
    (spc = "done" /\ \A i \in 1..Len(sort_mentions) : Parses(sort_mentions[i])) =>
        LET out == sort_returned.returned
        IN  /\ IsPermutation(sort_mentions, out)
            /\ \A i, j \in 1..Len(out) :
                  (i < j /\ SameKind(out[i], out[j]))
                      => ~Ahead(out[j], out[i], reverse)
            /\ \A i, j \in 1..Len(out) :
                  (i < j /\ SameKind(out[i], out[j])
                         /\ Instant(out[i]) = Instant(out[j]))
                      => \E a, b \in 1..Len(sort_mentions) :
                             /\ a < b
                             /\ sort_mentions[a] = out[i]
                             /\ sort_mentions[b] = out[j]

\* the result is sorted whenever all timestamps are of one kind: all with an
\* offset, or all without
SortedWhenComparable ==
    (\A i, j \in 1..Len(sort_mentions) :
        (Parses(sort_mentions[i]) /\ Parses(sort_mentions[j]))
            => SameKind(sort_mentions[i], sort_mentions[j]))
        => C17_SortedByTimestamp

\* C18: when some timestamp cannot be parsed, nothing is raised and the
\* original sequence is returned, same elements in the same order.
C18_UnparsedReturnsInput ==
    (spc = "done" /\ \E i \in 1..Len(sort_mentions) : ~Parses(sort_mentions[i])) =>
        /\ sort_returned.caught
        /\ sort_returned.returned = sort_mentions

C18_Witness ==
    /\ spc = "done"
    /\ Len(sort_mentions) = 3
    /\ ~Parses(sort_mentions[2])
    /\ Ahead(sort_mentions[3], sort_mentions[1], reverse)
    /\ sort_returned.returned = sort_mentions

-----------------------------------------------------------------------------
(* get_mentions_summary *)

S_unknown == <<"u", "n", "k", "n", "o", "w", "n">>

\* mention.get('source', 'unknown')
SourceOf(mention) == Get(mention, "source", PyStr(S_unknown))

\* source_counts: each source that occurs, with the number of its mentions
SourceCounts(list) ==
    [source \in {SourceOf(list[i]) : i \in 1..Len(list)} |->
        Cardinality({i \in 1..Len(list) : SourceOf(list[i]) = source})]

\* mention.get('timestamp', '')
SummaryKeyText(mention) == Get(mention, "timestamp", EmptyStr)

\* the try block around fromisoformat succeeded: ts is appended
TimestampParsed(mention) == TimestampOk(SummaryKeyText(mention))

SummaryKey(mention) ==
    FromIsoFormat(Replace(SummaryKeyText(mention).v, "Z",
                          <<"+", "0", "0", ":", "0", "0">>))

\* timestamps, in input order
ParsedTimestamps(list) ==
    LET parsed == SelectSeq(list, TimestampParsed)
    IN  [i \in 1..Len(parsed) |-> SummaryKey(parsed[i])]

\* len(mention.get('text', '')) raises TypeError on None or a number
LengthRaises(mention) == Get(mention, "text", EmptyStr).t # "str"

TextLength(mention) == Len(Get(mention, "text", EmptyStr).v)

RECURSIVE SumOf(_)
SumOf(numbers) ==
    IF numbers = <<>> THEN 0 ELSE Head(numbers) + SumOf(Tail(numbers))

\* timestamps.sort() raises TypeError on an offset-naive next to an
\* offset-aware datetime
TimestampsSortRaises(timestamps) ==
    \E i, j \in 1..Len(timestamps) : CompareRaises(timestamps[i], timestamps[j])

\* timestamps[0] after timestamps.sort()
EarliestOf(timestamps) ==
    CHOOSE t \in {timestamps[i] : i \in 1..Len(timestamps)} :
        \A i \in 1..Len(timestamps) : ~Earlier(timestamps[i], t)

\* timestamps[-1] after timestamps.sort()
LatestOf(timestamps) ==
    CHOOSE t \in {timestamps[i] : i \in 1..Len(timestamps)} :
        \A i \in 1..Len(timestamps) : ~Earlier(t, timestamps[i])

\* (b - a).days: whole days of the difference, rounded down
SpanDays(a, b) ==
    (b.day - a.day)
    - (IF b.sec < a.sec \/ (b.sec = a.sec /\ b.usec < a.usec) THEN 1 ELSE 0)

\* date_range; earliest and latest are held as the datetimes, not as their
\* isoformat() text
DateRange(timestamps) ==
    IF timestamps = <<>> THEN PyNone
    ELSE [earliest |-> EarliestOf(timestamps),
          latest |-> LatestOf(timestamps),
          span_days |-> SpanDays(EarliestOf(timestamps), LatestOf(timestamps))]

\* the returned dict (processed_at, the time of the call, left out), or
\* raised when an exception leaves the function; avg_text_length is the
\* fraction sum / count
get_mentions_summary(list) ==
    IF list = <<>>
    THEN [raised |-> FALSE, total_mentions |-> 0, by_source |-> <<>>,
          date_range |-> PyNone, avg_text_length |-> <<0, 1>>]
    ELSE IF \E i \in 1..Len(list) : LengthRaises(list[i]) THEN [raised |-> TRUE]
    ELSE IF TimestampsSortRaises(ParsedTimestamps(list)) THEN [raised |-> TRUE]
    ELSE [raised |-> FALSE,
          total_mentions |-> Len(list),
          by_source |-> SourceCounts(list),
          date_range |-> DateRange(ParsedTimestamps(list)),
          avg_text_length |->
              <<SumOf([i \in 1..Len(list) |-> TextLength(list[i])]), Len(list)>>]

-----------------------------------------------------------------------------
(* SpecSummary: get_mentions_summary applied to every input *)

MaxSummarised == 3

SummaryPool ==
    {Mention(PyStr(S_twitter), PyStr(S_id1), PyStr(TX_a), PyStr(TS_naive)),
     Mention(PyStr(S_twitter), PyStr(S_id2), PyStr(TX_b), PyStr(TS_date)),
     Mention(PyStr(S_facebook), PyStr(S_id3), PyStr(TX_a), PyStr(TS_zulu)),
     Mention(PyStr(S_facebook), PyStr(S_id4), PyStr(TX_b), PyStr(TS_word)),
     Mention(PyStr(S_google_play), PyStr(S_id1), Missing, PyNone),
     Mention(Missing, PyStr(S_id2), PyStr(TX_a), Missing),
     Mention(PyStr(S_twitter), PyStr(S_id3), PyNone, PyStr(TS_naive))}

InitSummary ==
    /\ summary_mentions \in SeqsUpTo(SummaryPool, MaxSummarised)
    /\ summary = Missing
    /\ upc = "call"
    /\ ValidateIdle /\ DedupIdle /\ ThresholdIdle /\ SinkIdle /\ FrameIdle
    /\ MainIdle /\ SortIdle /\ AnalyzeIdle

Summarise ==
    /\ upc = "call"
    /\ summary' = get_mentions_summary(summary_mentions)
    /\ upc' = "done"
    /\ UNCHANGED <<summary_mentions, notSummary>>

NextSummary == Summarise

SpecSummary == InitSummary /\ [][NextSummary]_vars

\* the timestamp of the mention is a text that parses as ISO-8601
HasParsingTimestamp(m) ==
    /\ m.timestamp.t = "str"
    /\ m.timestamp.v \in IsoTimestamps

RECURSIVE SumOver(_, _)
\* the sum of the counts a by_source mapping holds
SumOver(counts, sources) ==
    IF sources = {} THEN 0
    ELSE LET s == CHOOSE x \in sources : TRUE
         IN  counts[s] + SumOver(counts, sources \ {s})

\* C19: the empty input gives the zero-valued summary without error; for a
\* non-empty input total_mentions is the number of mentions, the by_source
\* counts sum to it, and date_range is null exactly when no timestamp parses.
C19_SummaryCounts ==
    upc = "done" =>
        /\ ~summary.raised
        /\ summary_mentions = <<>> =>
              /\ summary.total_mentions = 0
              /\ summary.by_source = <<>>
              /\ summary.date_range = PyNone
              /\ summary.avg_text_length[1] = 0
        /\ summary_mentions # <<>> =>
              /\ summary.total_mentions = Len(summary_mentions)
              /\ SumOver(summary.by_source, DOMAIN summary.by_source)
                     = summary.total_mentions
              /\ summary.date_range = PyNone <=>
                     \A i \in 1..Len(summary_mentions) :
                         ~HasParsingTimestamp(summary_mentions[i])

\* the counts and the date range are as stated in every call that returns
ReturnedSummaryCounts ==
    (upc = "done" /\ ~summary.raised) => C19_SummaryCounts

-----------------------------------------------------------------------------
(* format_alert_message and send_slack_alert *)

LowerLetters == <<"a", "b", "c", "d", "e", "f", "g", "h", "i", "j", "k", "l", "m",
                  "n", "o", "p", "q", "r", "s", "t", "u", "v", "w", "x", "y", "z">>
UpperLetters == <<"A", "B", "C", "D", "E", "F", "G", "H", "I", "J", "K", "L", "M",
                  "N", "O", "P", "Q", "R", "S", "T", "U", "V", "W", "X", "Y", "Z">>

IsCased(c) == \E i \in 1..26 : LowerLetters[i] = c \/ UpperLetters[i] = c

LetterIndex(c) == CHOOSE i \in 1..26 : LowerLetters[i] = c \/ UpperLetters[i] = c

\* str.title(): a letter after what is no letter is upper case, a letter
\* after a letter is lower case
Title(s) ==
    [i \in 1..Len(s) |->
        IF ~IsCased(s[i]) THEN s[i]
        ELSE IF i = 1 \/ ~IsCased(s[i - 1]) THEN UpperLetters[LetterIndex(s[i])]
        ELSE LowerLetters[LetterIndex(s[i])]]

DigitChars == <<"0", "1", "2", "3", "4", "5", "6", "7", "8", "9">>

RECURSIVE Decimal(_)
\* str(n) of a natural number
Decimal(n) ==
    IF n < 10 THEN <<DigitChars[n + 1]>>
    ELSE Decimal(n \div 10) \o <<DigitChars[(n % 10) + 1]>>

\* the thousandths a number stands for: a float of the model, or an int
Thousandths(x) == IF x.t = "int" THEN 1000 * ToInt(x.v) ELSE x.v[1]

\* format(x, spec) raises on what is no number
FormatRaises(x) == x.t \notin {"num", "int"}

\* f"{x:.1%}"
Percent1(x) ==
    Decimal(Thousandths(x) \div 10) \o <<".">>
        \o Decimal(Thousandths(x) % 10) \o <<"%">>

\* f"{x:.3f}"
Fixed3(x) ==
    LET n == Thousandths(x)
    IN  Decimal(n \div 1000) \o <<".">> \o Decimal((n \div 100) % 10)
            \o Decimal((n \div 10) % 10) \o Decimal(n % 10)

AlertBlocks == 3
ExcerptLimit == 200

S_no_text == <<"N", "o", " ", "t", "e", "x", "t", " ",
               "a", "v", "a", "i", "l", "a", "b", "l", "e">>
S_score_line == <<"S", "e", "n", "t", "i", "m", "e", "n", "t", " ",
                  "S", "c", "o", "r", "e", ":", " ">>
S_view_original == <<"|", "V", "i", "e", "w", " ",
                     "O", "r", "i", "g", "i", "n", "a", "l", ">">>
S_detected == <<" ", "n", "e", "g", "a", "t", "i", "v", "e", " ",
                "s", "e", "n", "t", "i", "m", "e", "n", "t", " ",
                "d", "e", "t", "e", "c", "t", "e", "d">>
S_with == <<" ", "w", "i", "t", "h", " ">>
S_negative_mentions == <<" ", "n", "e", "g", "a", "t", "i", "v", "e", " ",
                         "m", "e", "n", "t", "i", "o", "n", "s", ".">>
S_top == <<"*", "T", "o", "p", " ">>
S_most_negative == <<" ", "M", "o", "s", "t", " ", "N", "e", "g", "a", "t", "i", "v", "e", " ",
                     "M", "e", "n", "t", "i", "o", "n", "s", ":", "*">>

\* one block of the payload; kind names the place the code builds it at,
\* excerpt and link are what the code put into the text of a mention block
Block(type, kind, text, excerpt, link) ==
    [type |-> type, kind |-> kind, text |-> text, excerpt |-> excerpt, link |-> link]

\* bool(top_negative_mentions), len(top_negative_mentions)
TopTruthy(top) ==
    CASE top.t = "list" -> top.v # <<>>
      [] OTHER -> Truthy(top)

LenRaises(top) == top.t # "list"

AlertSource(mention) == Get(mention, "source", PyStr(S_unknown))
AlertUser(mention) == Get(mention, "user", Get(mention, "username", PyStr(S_unknown)))
AlertText(mention) == Get(mention, "text", Get(mention, "content", PyStr(<<>>)))
AlertScore(mention) == Get(mention, "sentiment_score", PyNum(0))
AlertUrl(mention) == Get(mention, "url", PyStr(<<>>))

\* s.replace('\n', ' ').replace('\r', ' ')
LineBreaksToSpaces(s) ==
    [i \in 1..Len(s) |-> IF s[i] \in {"\n", "\r"} THEN " " ELSE s[i]]

\* text.replace('\n', ' ').replace('\r', ' ').strip(), cut to 200 characters
\* plus "..."; "No text available" for a text that is not truthy
clean_text_KeepsLong(text) ==
    IF Truthy(text)
    THEN Strip(LineBreaksToSpaces(text.v))
    ELSE S_no_text

clean_text(text) ==
    IF Truthy(text)
    THEN LET cleaned == Strip(LineBreaksToSpaces(text.v))
         IN  IF Len(cleaned) > ExcerptLimit
             THEN SubSeq(cleaned, 1, ExcerptLimit) \o <<".", ".", ".">>
             ELSE cleaned
    ELSE S_no_text

\* what raises inside the loop body: .get on what is no dict, .replace on a
\* truthy text that is no str, .title() on a source that is no str, .3f on a
\* score that is no number
MentionRaises(mention) ==
    \/ GetRaises(mention)
    \/ Truthy(AlertText(mention)) /\ AlertText(mention).t # "str"
    \/ AlertSource(mention).t # "str"
    \/ FormatRaises(AlertScore(mention))

\* mention_text
MentionText(i, mention) ==
    <<"*">> \o Decimal(i) \o <<".", " ">> \o Title(AlertSource(mention).v)
        \o <<" ", "-", " ", "@">> \o Str(AlertUser(mention)) \o <<"*", "\n">>
        \o S_score_line \o Fixed3(AlertScore(mention)) \o <<"\n">>
        \o <<"_">> \o clean_text(AlertText(mention)) \o <<"_">>
        \o (IF Truthy(AlertUrl(mention))
            THEN <<"\n", "<">> \o Str(AlertUrl(mention)) \o S_view_original
            ELSE <<>>)

MentionBlock(i, mention) ==
    Block("section", "mention", MentionText(i, mention),
          clean_text(AlertText(mention)),
          IF Truthy(AlertUrl(mention)) THEN AlertUrl(mention) ELSE Missing)

\* top_negative_mentions[:3]
Selected(top) == FirstN(top.v, AlertBlocks)

\* the blocks of the payload.  The fixed wording of the header, the summary
\* and the footer is left out: the summary is held by the percentage in it.
MessageBlocks(ratio, top) ==
    <<Block("header", "header", <<>>, Missing, Missing),
      Block("section", "summary", Percent1(ratio), Missing, Missing),
      Block("divider", "divider", <<>>, Missing, Missing)>>
    \o (IF TopTruthy(top)
        THEN <<Block("section", "mention_header",
                     S_top \o Decimal(Len(top.v)) \o S_most_negative,
                     Missing, Missing)>>
             \o [i \in 1..Len(Selected(top)) |-> MentionBlock(i, Selected(top)[i])]
        ELSE <<>>)
    \o <<Block("context", "footer", <<>>, Missing, Missing)>>

\* the try block raises
FormatFails(top) ==
    /\ TopTruthy(top)
    /\ \/ LenRaises(top)
       \/ \E i \in 1..Len(Selected(top)) : MentionRaises(Selected(top)[i])

AlertRaised == [raised |-> TRUE]

\* the texts are held from the percentage on
StructuredPayload(ratio, top) ==
    [raised |-> FALSE, fallback |-> FALSE,
     blocks |-> MessageBlocks(ratio, top),
     text |-> Percent1(ratio) \o S_detected]

FallbackPayload(ratio, top) ==
    [raised |-> FALSE, fallback |-> TRUE, blocks |-> <<>>,
     text |-> Percent1(ratio) \o S_detected \o S_with
                  \o Decimal(Len(top.v)) \o S_negative_mentions]

\* format_alert_message: the log line ahead of the try block formats the
\* percentage, and the except block takes len(top_negative_mentions) again
format_alert_message(ratio, top, total) ==
    IF FormatRaises(ratio) THEN AlertRaised
    ELSE IF ~FormatFails(top) THEN StructuredPayload(ratio, top)
    ELSE IF LenRaises(top) THEN AlertRaised
    ELSE FallbackPayload(ratio, top)

\* send_slack_alert; hook.url is "none" without a webhook URL, "invalid" for
\* one that is no Slack hook, "valid" otherwise; hook.response is what
\* requests.post does
send_slack_alert(ratio, top, hook, total) ==
    IF FormatRaises(ratio) THEN [raised |-> TRUE, value |-> FALSE, posted |-> <<>>]
    ELSE IF hook.url # "valid" THEN [raised |-> FALSE, value |-> FALSE, posted |-> <<>>]
    ELSE LET built == format_alert_message(ratio, top, total)
         IN  IF built.raised
             THEN [raised |-> FALSE, value |-> FALSE, posted |-> <<>>]
             ELSE [raised |-> FALSE, value |-> hook.response = "ok",
                   posted |-> <<built>>]

-----------------------------------------------------------------------------
(* SpecAlert: format_alert_message and send_slack_alert applied to every input *)

MaxAlertMentions == 4

S_url == <<"h", "t", "t", "p", ":", "/", "/", "x">>
TX_lines == <<" ", "b", "a", "d", "\n", "a", "p", "p", "\r", " ">>
TX_over == Rep("x", ExcerptLimit + 1)
TX_at_limit == <<" ">> \o Rep("y", ExcerptLimit) \o <<"\n">>

AlertMention(source, user, username, text, score, url) ==
    [source |-> source, user |-> user, username |-> username, text |-> text,
     content |-> Missing, sentiment_score |-> score, url |-> url]

A_short == AlertMention(PyStr(S_twitter), PyStr(S_user), Missing,
                        PyStr(TX_lines), PyNum(100), PyStr(S_url))
A_over == AlertMention(PyStr(S_google_play), PyStr(S_user), Missing,
                       PyStr(TX_over), PyNum(250), Missing)
A_at_limit == AlertMention(PyStr(S_facebook), PyNone, Missing,
                           PyStr(TX_at_limit), PyInt(<<"0">>), PyStr(<<>>))
A_no_text == AlertMention(Missing, Missing, PyStr(S_user),
                          Missing, Missing, PyStr(S_url))
A_no_score == AlertMention(PyStr(S_twitter), PyStr(S_user), Missing,
                           PyStr(TX_lines), PyNone, Missing)

AlertPool == {A_short, A_over, A_at_limit, A_no_text, A_no_score, PyStr(TX_lines)}

\* the lists longer than the three mentions the message shows
LongerPool == {A_short, A_over, A_no_score}

AlertTops == {PyNone, PyInt(<<"5">>)}
                 \cup {PyList(s) : s \in SeqsUpTo(AlertPool, AlertBlocks)}
                 \cup {PyList(s) : s \in SeqsUpTo(LongerPool, MaxAlertMentions)}

AlertRatios == {PyNum(300), PyNum(1000), PyNone}

Hooks == {[url |-> "none", response |-> "none"],
          [url |-> "invalid", response |-> "none"],
          [url |-> "valid", response |-> "ok"],
          [url |-> "valid", response |-> "rejected"],
          [url |-> "valid", response |-> "timeout"]}

InitAlert ==
    /\ alert_ratio \in AlertRatios
    /\ alert_top \in AlertTops
    /\ alert_total = 10
    /\ webhook = Missing /\ payload = Missing /\ posted = <<>>
    /\ sent = Missing /\ fpc = "call"
    /\ ValidateIdle /\ DedupIdle /\ ThresholdIdle
    /\ MainIdle /\ SortIdle /\ SummaryIdle /\ AnalyzeIdle /\ SheetIdle /\ FrameIdle

\* format_alert_message(negative_percentage, top_negative_mentions, total_mentions)
Format ==
    /\ fpc = "call"
    /\ payload' = format_alert_message(alert_ratio, alert_top, alert_total)
    /\ fpc' = IF payload'.raised THEN "raised" ELSE "formatted"
    /\ UNCHANGED <<alert_ratio, alert_top, alert_total, webhook, posted, sent,
                   notAlert>>

\* send_slack_alert(negative_percentage, top_negative_mentions, webhook_url,
\* total_mentions)
Send ==
    /\ fpc = "call"
    /\ \E hook \in Hooks :
          LET returned == send_slack_alert(alert_ratio, alert_top, hook, alert_total)
          IN  /\ webhook' = hook
              /\ posted' = returned.posted
              /\ sent' = returned.value
              /\ fpc' = IF returned.raised THEN "send_raised" ELSE "sent"
    /\ UNCHANGED <<alert_ratio, alert_top, alert_total, payload, notAlert>>

NextAlert == Format \/ Send

SpecAlert == InitAlert /\ [][NextAlert]_vars

\* the mention blocks of the payload, in the order they are in it
ShownBlocks ==
    SelectSeq(payload.blocks, LAMBDA b : b.kind = "mention")

\* a mention the loop body renders without raising
Renderable(m) ==
    /\ DOMAIN m # {"t", "v"}
    /\ m.source.t \in {"str", "missing"}
    /\ m.text.t \in {"str", "missing", "none"}
    /\ m.sentiment_score.t \in {"num", "int", "missing"}

HasText(m) == m.text.t = "str" /\ m.text.v # <<>>
HasUrl(m) == m.url.t = "str" /\ m.url.v # <<>>

\* the text of the mention on one line, without the white space around it
CleanedText(m) == Strip(LineBreaksToSpaces(m.text.v))

\* C22: for a list of mentions that can be rendered, the message has one
\* mention block for each of the first three mentions, in their order; the
\* excerpt of a block is the cleaned text when that has at most 200
\* characters and its first 200 characters followed by "..." when it has
\* more, and the block holds the link "View Original" exactly when the
\* mention has a url that is not empty.
C22_OneBlockPerMention ==
    (/\ fpc = "formatted"
     /\ alert_top.t = "list"
     /\ \A i \in 1..Len(alert_top.v) : i <= 3 => Renderable(alert_top.v[i])) =>
        /\ ~payload.fallback
        /\ Len(ShownBlocks) = (IF Len(alert_top.v) < 3 THEN Len(alert_top.v) ELSE 3)
        /\ \A i \in 1..Len(ShownBlocks) :
              LET m == alert_top.v[i]
                  b == ShownBlocks[i]
              IN  /\ SubSeq(b.text, 1, 4) = <<"*">> \o Decimal(i) \o <<".", " ">>
                  /\ HasText(m) =>
                        IF Len(CleanedText(m)) <= 200
                        THEN b.excerpt = CleanedText(m)
                        ELSE /\ Len(b.excerpt) = 203
                             /\ SubSeq(b.excerpt, 1, 200) = SubSeq(CleanedText(m), 1, 200)
                             /\ SubSeq(b.excerpt, 201, 203) = <<".", ".", ".">>
                  /\ Contains(<<"\n", "_">> \o b.excerpt \o <<"_">>, b.text)
                  /\ HasUrl(m) <=> Contains(S_view_original, b.text)
                  /\ HasUrl(m) =>
                        Contains(<<"<">> \o m.url.v \o S_view_original, b.text)

\* four mentions given: three blocks, the first cut to 200 characters and
\* without a link, the second whole and with its link
C22_Witness ==
    /\ fpc = "formatted"
    /\ alert_top = PyList(<<A_over, A_short, A_short, A_over>>)
    /\ Len(ShownBlocks) = 3
    /\ ShownBlocks[1].excerpt = Rep("x", 200) \o <<".", ".", ".">>
    /\ ShownBlocks[1].link = Missing
    /\ ShownBlocks[2].excerpt = <<"b", "a", "d", " ", "a", "p", "p">>
    /\ ShownBlocks[2].link = PyStr(S_url)


\* C23: format_alert_message never raises, a failure while the structured
\* message is built gives the plain-text message with the percentage and the
\* number of mentions, and send_slack_alert called with a valid webhook has a
\* payload to post.
C23_FormattingNeverFails ==
    /\ fpc \notin {"raised", "send_raised"}
    /\ (fpc = "formatted" /\ payload.fallback) =>
          /\ Contains(Percent1(alert_ratio), payload.text)
          /\ Contains(S_with \o Decimal(Len(alert_top.v)), payload.text)
    /\ (fpc = "sent" /\ webhook.url = "valid") => Len(posted) = 1

\* with a numeric percentage and a list of mentions nothing is raised, and a
\* mention that cannot be rendered gives the plain-text message
FallbackForBadMentions ==
    (alert_ratio.t = "num" /\ alert_top.t = "list") =>
        /\ fpc \notin {"raised", "send_raised"}
        /\ (fpc = "formatted" /\
            \E i \in 1..Len(alert_top.v) : i <= 3 /\ ~Renderable(alert_top.v[i])) =>
              /\ payload.fallback
              /\ Contains(Percent1(alert_ratio), payload.text)
              /\ Contains(S_with \o Decimal(Len(alert_top.v)), payload.text)
        /\ (fpc = "sent" /\ webhook.url = "valid") => Len(posted) = 1

-----------------------------------------------------------------------------
(* format_data_for_sheets *)

\* the columns of the worksheet, in order (setup_worksheet_headers)
headers == <<"timestamp", "source", "id", "user", "text",
             "sentiment_label", "sentiment_score">>

TextLimit == 1000

S_error == <<"e", "r", "r", "o", "r">>
S_error_processing == <<"E", "r", "r", "o", "r", " ", "p", "r", "o", "c", "e", "s", "s",
                        "i", "n", "g", " ", "d", "a", "t", "a", ":", " ">>
S_half == <<"0", ".", "5">>
S_utc == <<" ", "U", "T", "C">>

\* datetime.now().isoformat(): the clock of the model stands still
NowIso == TS_micro

\* item.get(key, default) on a dict that may not hold the key at all
GetKey(item, key, default) ==
    IF key \in DOMAIN item THEN Get(item, key, default) ELSE default

\* str(x) of a float held in thousandths: the shortest decimal with at least
\* one digit after the point
StrFloat(n) ==
    Decimal(n \div 1000) \o <<".">>
        \o (IF n % 1000 = 0 THEN <<"0">>
            ELSE IF n % 100 = 0 THEN Decimal((n \div 100) % 10)
            ELSE IF n % 10 = 0
                 THEN Decimal((n \div 100) % 10) \o Decimal((n \div 10) % 10)
            ELSE Decimal((n \div 100) % 10) \o Decimal((n \div 10) % 10)
                     \o Decimal(n % 10))

\* str(x)
StrOf(x) ==
    CASE x.t = "num" -> StrFloat(x.v[1])
      [] OTHER -> Str(x)

\* dt.strftime('%Y-%m-%d %H:%M:%S UTC') of the datetime parsed from s: the
\* date and the wall clock as written, whatever the offset
Strftime(s) ==
    LET rest  == IF Len(s) > 11 THEN SubSeq(s, 12, Len(s)) ELSE <<>>
        signs == {i \in 1..Len(rest) : rest[i] \in {"+", "-"}}
        cut   == IF signs = {} THEN Len(rest) + 1
                 ELSE CHOOSE i \in signs : \A j \in signs : i <= j
        clock == SubSeq(rest, 1, cut - 1)
        two(i) == IF Len(clock) >= i + 1 THEN SubSeq(clock, i, i + 1)
                  ELSE <<"0", "0">>
    IN  SubSeq(s, 1, 10) \o <<" ">> \o two(1) \o <<":">> \o two(4) \o <<":">>
            \o two(7) \o S_utc

\* the timestamp column: a text fromisoformat parses is formatted again, any
\* other value is left as it is
SheetTimestamp(timestamp) ==
    IF timestamp.t # "str" THEN timestamp
    ELSE LET text == Replace(timestamp.v, "Z", <<"+", "0", "0", ":", "0", "0">>)
         IN  IF FromIsoFormat(text).ok THEN PyStr(Strftime(text)) ELSE timestamp

\* the text column: a truthy text as one line, stripped and cut to 1000
\* characters plus "..."; a text that is not truthy is left as it is
SheetText(text) ==
    IF Truthy(text)
    THEN LET cleaned == Strip(LineBreaksToSpaces(StrOf(text)))
         IN  PyStr(IF Len(cleaned) > TextLimit
                   THEN SubSeq(cleaned, 1, TextLimit) \o <<".", ".", ".">>
                   ELSE cleaned)
    ELSE text

\* str(round(float(sentiment_score), 4)) of a number, '0.5' of anything else
SheetScore(sentiment_score) ==
    IF sentiment_score.t \in {"num", "int"}
    THEN PyStr(StrFloat(Thousandths(sentiment_score)))
    ELSE PyStr(S_half)

\* formatted_row
FormattedRow(item) ==
    <<SheetTimestamp(GetKey(item, "timestamp", PyStr(NowIso))),
      GetKey(item, "source", PyStr(S_unknown)),
      PyStr(StrOf(GetKey(item, "id", EmptyStr))),
      GetKey(item, "user", GetKey(item, "username", EmptyStr)),
      SheetText(GetKey(item, "text", GetKey(item, "content", EmptyStr))),
      GetKey(item, "sentiment_label", PyStr(S_neutral)),
      SheetScore(GetKey(item, "sentiment_score", PyNum(500)))>>

\* the row of the except block; the exception message that follows the text
\* is left out
ErrorRow ==
    <<PyStr(Strftime(NowIso)), PyStr(S_error), EmptyStr, EmptyStr,
      PyStr(S_error_processing), PyStr(S_neutral), PyStr(S_half)>>

format_data_for_sheets_SkipsBad(data) ==
    LET good == SelectSeq(data, LAMBDA item : ~GetRaises(item))
    IN  [i \in 1..Len(good) |-> FormattedRow(good[i])]

\* format_data_for_sheets: item.get raises on what is no dict, and the
\* except block puts the error row in its place
format_data_for_sheets(data) ==
    [i \in 1..Len(data) |->
        IF GetRaises(data[i]) THEN ErrorRow ELSE FormattedRow(data[i])]

-----------------------------------------------------------------------------
(* SpecSheet: format_data_for_sheets applied to every list of items *)

MaxSheetItems == 3

TX_sheet_over == <<" ">> \o Rep("w", TextLimit + 1)

SheetItem(id, text, timestamp, score) ==
    WithSentiment(Mention(PyStr(S_twitter), id, text, timestamp),
                  PyStr(S_negative), score, Missing, Missing)

H_plain == SheetItem(PyStr(S_id1), PyStr(TX_lines), PyStr(TS_zulu), PyNum(250))
H_over == SheetItem(PyInt(<<"2">>), PyStr(TX_sheet_over), PyStr(TS_word), PyInt(<<"1">>))
H_bare == SheetItem(PyStr(S_id3), PyNone, Missing, PyNone)
H_date == SheetItem(PyStr(S_id4), PyInt(<<"7">>), PyStr(TS_date), PyNum(500))
\* a record of another shape: username and content in place of user and text
H_other == [id |-> PyStr(S_sim_1), username |-> PyStr(S_user),
            content |-> PyStr(TX_a), timestamp |-> PyStr(TS_offset)]

SheetPool == {H_plain, H_over, H_bare, H_date, H_other, PyStr(TX_a)}

InitSheet ==
    /\ sheet_data \in SeqsUpTo(SheetPool, MaxSheetItems)
    /\ formatted_rows = <<>>
    /\ hpc = "call"
    /\ ValidateIdle /\ DedupIdle /\ ThresholdIdle
    /\ MainIdle /\ SortIdle /\ SummaryIdle /\ AnalyzeIdle /\ AlertIdle /\ FrameIdle

FormatRows ==
    /\ hpc = "call"
    /\ formatted_rows' = format_data_for_sheets(sheet_data)
    /\ hpc' = "done"
    /\ UNCHANGED <<sheet_data, notSheet>>

NextSheet == FormatRows

SpecSheet == InitSheet /\ [][NextSheet]_vars


\* the place of a column in a row
Column(name) == CHOOSE k \in 1..Len(headers) : headers[k] = name

\* the value an item holds under a key, or the default of the column
Held(item, key, default) ==
    IF key \in DOMAIN item /\ item[key] # Missing THEN item[key] ELSE default

\* C24: format_data_for_sheets returns one row for each item, in the order
\* of the items, and every row has the seven columns timestamp, source, id,
\* user, text, sentiment_label, sentiment_score in that order: the row of a
\* mention holds the values of that mention in these columns, and an item
\* whose formatting raises has the error row at its place.
C24_OneRowPerMention ==
    hpc = "done" =>
        /\ Len(formatted_rows) = Len(sheet_data)
        /\ headers = <<"timestamp", "source", "id", "user", "text",
                       "sentiment_label", "sentiment_score">>
        /\ \A i \in 1..Len(sheet_data) :
              LET item == sheet_data[i]
                  row  == formatted_rows[i]
              IN  /\ Len(row) = 7
                  /\ row[Column("sentiment_score")].t = "str"
                  /\ IF DOMAIN item = {"t", "v"}
                     THEN /\ row[Column("source")] = PyStr(S_error)
                          /\ row[Column("id")] = EmptyStr
                          /\ row[Column("sentiment_label")] = PyStr(S_neutral)
                          /\ row[Column("sentiment_score")] = PyStr(S_half)
                     ELSE /\ row[Column("id")].t = "str"
                          /\ row[Column("id")].v = item.id.v
                          /\ row[Column("source")] =
                                 Held(item, "source", PyStr(S_unknown))
                          /\ row[Column("user")] =
                                 Held(item, "user", Held(item, "username", EmptyStr))
                          /\ row[Column("sentiment_label")] =
                                 Held(item, "sentiment_label", PyStr(S_neutral))
                          /\ LET text == Held(item, "text",
                                              Held(item, "content", EmptyStr))
                             IN  text.t = "str" =>
                                    /\ row[Column("text")].t = "str"
                                    /\ Len(row[Column("text")].v) <= 1003
                                    /\ Contains(SubSeq(row[Column("text")].v, 1,
                                                       Len(row[Column("text")].v) - 3),
                                                LineBreaksToSpaces(text.v))
                          /\ LET timestamp == Held(item, "timestamp", PyStr(NowIso))
                             IN  IF TimestampOk(timestamp)
                                 THEN SubSeq(row[Column("timestamp")].v, 1, 10)
                                          = SubSeq(timestamp.v, 1, 10)
                                 ELSE row[Column("timestamp")] = timestamp

\* three items, the second no mention: three rows, the error row second
C24_Witness ==
    /\ hpc = "done"
    /\ sheet_data = <<H_over, PyStr(TX_a), H_plain>>
    /\ Len(formatted_rows) = 3
    /\ formatted_rows[1][3] = PyStr(<<"2">>)
    /\ Len(formatted_rows[1][5].v) = 1003
    /\ formatted_rows[2][2] = PyStr(S_error)
    /\ formatted_rows[3][3] = PyStr(S_id1)
    /\ formatted_rows[3][5] = PyStr(<<"b", "a", "d", " ", "a", "p", "p">>)
    /\ formatted_rows[3][1] = PyStr(SubSeq(TS_naive, 1, 10) \o <<" ">>
                                    \o SubSeq(TS_naive, 12, 19) \o S_utc)

-----------------------------------------------------------------------------
(* main: collection, processing, sentiment stage, exit *)

RECURSIVE DeduplicateFrom(_, _, _, _, _)
\* the for loop of deduplicate_mentions from item i on, as a function of its
\* locals: the list returned, or raised when an exception leaves the function
DeduplicateFrom(list, i, ids, hashes, kept) ==
    IF i > Len(list) THEN [raised |-> FALSE, returned |-> kept]
    ELSE LET mention == list[i]
             branch == Branch(mention, ids, hashes)
             ids_after == RecordId(ids, MentionId(mention))
             hashes_after == HashesAfter(mention, hashes)
         IN  CASE branch = "identity_duplicate" ->
                      DeduplicateFrom(list, i + 1, ids, hashes, kept)
               [] branch = "raise" -> [raised |-> TRUE, returned |-> <<>>]
               [] branch = "kept" ->
                      DeduplicateFrom(list, i + 1, ids_after, hashes_after,
                                      KeepMention(kept, mention))
               [] OTHER ->
                      DeduplicateFrom(list, i + 1, ids_after, hashes_after, kept)

deduplicate_mentions(list) == DeduplicateFrom(list, 1, {}, <<>>, <<>>)

\* what a scraper does in a run: it raises, or returns a list of mentions
Raises == [ok |-> FALSE, items |-> <<>>]
Returns(items) == [ok |-> TRUE, items |-> items]

CollectFrom_LosesOnFailure(collected, scrape) ==
    IF scrape.ok THEN collected \o scrape.items ELSE <<>>

\* try: all_mentions.extend(scrape(...)) except Exception: logged
CollectFrom(collected, scrape) ==
    IF scrape.ok THEN collected \o scrape.items ELSE collected

\* one of the three collection blocks
Fetch(source, next) ==
    /\ mpc = source
    /\ attempted' = Append(attempted, source)
    /\ main_all_mentions' = CollectFrom(main_all_mentions, scrapers[source])
    /\ mpc' = next
    /\ UNCHANGED <<sorted_mentions, main_sentiment_results, analyzed_mentions,
                   merge_i, scrapers, classifier, dedup_argument,
                   deduplicated_mentions, main_summary, sheet_rows,
                   exit_status, alerts, outputVars, notMain>>

FetchTwitter == Fetch("twitter", "facebook")

FetchFacebook == Fetch("facebook", "google_play")

FetchGooglePlay == Fetch("google_play", "deduplicate")

\* deduplicated_mentions = deduplicate_mentions(all_mentions); an exception
\* reaches the except block of main
Deduplicate ==
    /\ mpc = "deduplicate"
    /\ dedup_argument' = PyList(main_all_mentions)
    /\ LET call == deduplicate_mentions(main_all_mentions)
       IN  IF call.raised
           THEN mpc' = "failed" /\ deduplicated_mentions' = deduplicated_mentions
           ELSE mpc' = "sort" /\ deduplicated_mentions' = call.returned
    /\ UNCHANGED <<sorted_mentions, main_sentiment_results, analyzed_mentions,
                   merge_i, scrapers, classifier, main_all_mentions, attempted,
                   main_summary, sheet_rows, exit_status, alerts, outputVars, notMain>>

\* sorted_mentions = sort_mentions_by_timestamp(deduplicated_mentions)
Sort ==
    /\ mpc = "sort"
    /\ sorted_mentions' =
           sort_mentions_by_timestamp(deduplicated_mentions, TRUE).returned
    /\ mpc' = "summary"
    /\ UNCHANGED <<main_sentiment_results, analyzed_mentions, merge_i,
                   mainRunVars, notMain>>

\* summary = get_mentions_summary(sorted_mentions); an exception reaches the
\* except block of main
Summary ==
    /\ mpc = "summary"
    /\ main_summary' = get_mentions_summary(sorted_mentions)
    /\ mpc' = IF main_summary'.raised THEN "failed" ELSE "stage3"
    /\ UNCHANGED <<sorted_mentions, main_sentiment_results, analyzed_mentions,
                   merge_i, scrapers, classifier, main_all_mentions, attempted,
                   dedup_argument, deduplicated_mentions, sheet_rows,
                   exit_status, alerts, outputVars, notMain>>

\* text = mention.get('text') or mention.get('content', '')
TextForAnalysis(mention) ==
    IF Truthy(Get(mention, "text", PyNone)) THEN mention.text
    ELSE IF "content" \in DOMAIN mention THEN Get(mention, "content", EmptyStr)
    ELSE EmptyStr

\* Stage 3: nothing to analyse, or sentiment_results =
\* analyze_sentiment(texts_for_analysis)
Stage3 ==
    /\ mpc = "stage3"
    /\ IF sorted_mentions = <<>>
       THEN /\ mpc' = "stage4"
            /\ main_sentiment_results' = main_sentiment_results
       ELSE /\ mpc' = "test_results"
            /\ main_sentiment_results' =
                   analyze_sentiment([i \in 1..Len(sorted_mentions) |->
                                         TextForAnalysis(sorted_mentions[i])],
                                     classifier)
    /\ UNCHANGED <<sorted_mentions, analyzed_mentions, merge_i, mainRunVars,
                   notMain>>

\* what the sheet does in a run: test_google_sheets_connection returns
\* connected; with appended false append_to_google_sheet cannot reach the
\* spreadsheet or the append raises
SheetRuns == {[connected |-> FALSE, appended |-> FALSE],
              [connected |-> TRUE, appended |-> FALSE],
              [connected |-> TRUE, appended |-> TRUE]}

\* append_to_google_sheet(data): True for no data, False when the sheet
\* cannot be reached or the append raises, else the formatted rows are
\* appended
append_to_google_sheet(data, sheet) ==
    IF data = <<>> THEN [success |-> TRUE, rows |-> <<>>]
    ELSE IF ~sheet.appended THEN [success |-> FALSE, rows |-> <<>>]
    ELSE [success |-> TRUE, rows |-> format_data_for_sheets(data)]

AfterStore_AbortsOnFailure(connected, sheets_success) ==
    IF connected /\ sheets_success THEN "save" ELSE "failed"

\* where main goes on after the sheet calls: both outcomes are logged only
AfterStore(connected, sheets_success) == "save"

\* if test_google_sheets_connection(): sheets_success =
\* append_to_google_sheet(analyzed_mentions)
Store ==
    /\ mpc = "merged"
    /\ \E sheet \in SheetRuns :
          LET call == append_to_google_sheet(analyzed_mentions, sheet)
          IN  IF sheet.connected
              THEN /\ sheet_status' = [connected |-> TRUE, success |-> call.success,
                                       handed |-> analyzed_mentions]
                   /\ sheet_rows' = call.rows
                   /\ mpc' = AfterStore(TRUE, call.success)
              ELSE /\ sheet_status' = [connected |-> FALSE, success |-> FALSE,
                                       handed |-> <<>>]
                   /\ sheet_rows' = sheet_rows
                   /\ mpc' = AfterStore(FALSE, FALSE)
    /\ UNCHANGED <<sorted_mentions, main_sentiment_results, analyzed_mentions,
                   merge_i, scrapers, classifier, main_all_mentions, attempted,
                   dedup_argument, deduplicated_mentions, main_summary,
                   exit_status, alerts, analyzed_file, notMain>>

\* sentiment_distribution: the number of analysed mentions of each label
SentimentDistribution(analyzed) ==
    [label \in {analyzed[i].sentiment_label : i \in 1..Len(analyzed)} |->
        Cardinality({i \in 1..Len(analyzed) : analyzed[i].sentiment_label = label})]

\* analyzed_data is written to analyzed_mentions.json
SaveAnalyzed ==
    /\ mpc = "save"
    /\ analyzed_file' = [mentions |-> analyzed_mentions,
                         summary |-> main_summary,
                         total_analyzed |-> Len(analyzed_mentions),
                         sentiment_distribution |->
                             SentimentDistribution(analyzed_mentions)]
    /\ mpc' = "stage4"
    /\ UNCHANGED <<sorted_mentions, main_sentiment_results, analyzed_mentions,
                   merge_i, scrapers, classifier, main_all_mentions, attempted,
                   dedup_argument, deduplicated_mentions, main_summary,
                   sheet_rows, exit_status, alerts, sheet_status, notMain>>

\* Stage 4 is a log line ("Ready for alerting implementation (TODO)"), then
\* return 0: the threshold is not evaluated and no alert is sent
Stage4 ==
    /\ mpc = "stage4"
    /\ mpc' = "returned"
    /\ exit_status' = "0"
    /\ UNCHANGED <<sorted_mentions, main_sentiment_results, analyzed_mentions,
                   merge_i, scrapers, classifier, main_all_mentions, attempted,
                   dedup_argument, deduplicated_mentions, main_summary,
                   sheet_rows, alerts, outputVars, notMain>>

\* except Exception: ... sys.exit(1)
Exit ==
    /\ mpc = "failed"
    /\ mpc' = "exited"
    /\ exit_status' = "1"
    /\ UNCHANGED <<sorted_mentions, main_sentiment_results, analyzed_mentions,
                   merge_i, scrapers, classifier, main_all_mentions, attempted,
                   dedup_argument, deduplicated_mentions, main_summary,
                   sheet_rows, alerts, outputVars, notMain>>

-----------------------------------------------------------------------------
(* SpecMain: runs of main over what the scrapers and the classifier do.
   analyze_sentiment returns one result per text, so the branch of main for
   an empty result list (NoResults) is not among the steps of these runs. *)

T_first  == Mention(PyStr(S_twitter), PyStr(S_id1), PyStr(TX_a), PyStr(TS_naive))
T_second == Mention(PyStr(S_twitter), PyStr(S_id2), PyStr(TX_b), PyStr(TS_micro))
T_null_text == Mention(PyStr(S_twitter), PyStr(S_id3), PyNone, PyStr(TS_naive))
F_first  == Mention(PyStr(S_facebook), PyStr(S_id3), PyStr(TX_c), PyStr(TS_date))
F_zulu   == Mention(PyStr(S_facebook), PyStr(S_id4), PyStr(TX_c), PyStr(TS_zulu))
G_first  == Mention(PyStr(S_google_play), PyStr(S_id1), PyStr(TX_A), PyStr(TS_naive))

Digits == <<"1", "2", "3", "4", "5", "6", "7", "8", "9">>

\* ten mentions of distinct identity and text; the classifier of the model
\* calls the first three negative and the others positive
TenMentions ==
    [k \in 1..10 |->
        Mention(PyStr(S_twitter),
                PyStr(IF k < 10 THEN <<Digits[k]>> ELSE <<"1", "0">>),
                PyStr(Rep(IF k <= 3 THEN "a" ELSE "b", MinTextLength + k)),
                PyStr(TS_naive))]

TwitterRuns ==
    {Raises, Returns(<<>>), Returns(<<T_first>>), Returns(<<T_first, T_second>>),
     Returns(<<T_first, T_second, T_first>>),
     Returns(<<T_null_text>>), Returns(TenMentions)}

FacebookRuns == {Raises, Returns(<<F_first>>), Returns(<<F_zulu>>)}

GooglePlayRuns == {Raises, Returns(<<>>), Returns(<<G_first>>)}

Classifiers ==
    {[loads |-> TRUE, failing |-> {}],
     [loads |-> TRUE, failing |-> {1}],
     [loads |-> FALSE, failing |-> {}]}

InitMain ==
    /\ mpc = "twitter"
    /\ scrapers \in [twitter : TwitterRuns, facebook : FacebookRuns,
                     google_play : GooglePlayRuns]
    /\ classifier \in Classifiers
    /\ main_all_mentions = <<>> /\ attempted = <<>> /\ dedup_argument = Missing
    /\ deduplicated_mentions = <<>> /\ main_summary = Missing
    /\ sorted_mentions = <<>> /\ main_sentiment_results = <<>>
    /\ analyzed_mentions = <<>> /\ merge_i = 0
    /\ sheet_rows = <<>> /\ exit_status = "" /\ alerts = <<>>
    /\ sheet_status = Missing /\ analyzed_file = Missing
    /\ ValidateIdle /\ DedupIdle /\ ThresholdIdle /\ SinkIdle /\ FrameIdle
    /\ SortIdle /\ SummaryIdle /\ AnalyzeIdle

NextMain ==
    \/ FetchTwitter
    \/ FetchFacebook
    \/ FetchGooglePlay
    \/ Deduplicate
    \/ Sort
    \/ Summary
    \/ Stage3
    \/ TestResults
    \/ MergeOne
    \/ MergeEnd
    \/ Store
    \/ SaveAnalyzed
    \/ Stage4
    \/ Exit

SpecMain == InitMain /\ [][NextMain]_vars

\* the number of annotated mentions labelled negative
NegativeAnnotated ==
    Cardinality({i \in 1..Len(analyzed_mentions) :
                    analyzed_mentions[i].sentiment_label = PyStr(S_negative)})

\* the negative ratio of the annotated mentions is at or above 0.20
RatioAtThreshold ==
    /\ analyzed_mentions # <<>>
    /\ NegativeAnnotated * 5 >= Len(analyzed_mentions)

\* C14: a run whose annotated mentions have a negative ratio at or above the
\* threshold has handed an alert message to the transport by the time it
\* completes (10 mentions with 3 negative at 0.20: an alert with 3 items).
C14_AlertBeforeCompletion ==
    (mpc = "returned" /\ RatioAtThreshold) => alerts # <<>>

\* the mentions a source contributed: none when its fetch raised
Contribution(source) ==
    IF scrapers[source].ok THEN scrapers[source].items ELSE <<>>

\* C15: a source whose fetch raises contributes no mention; every source is
\* attempted, the mentions collected before a failure are kept, and
\* deduplicate_mentions is called with all the mentions the sources returned.
C15_SourceFailureIsolated ==
    /\ mpc = "facebook" =>
          /\ attempted = <<"twitter">>
          /\ main_all_mentions = Contribution("twitter")
    /\ mpc = "google_play" =>
          /\ attempted = <<"twitter", "facebook">>
          /\ main_all_mentions = Contribution("twitter") \o Contribution("facebook")
    /\ mpc \notin {"twitter", "facebook", "google_play"} =>
          /\ attempted = <<"twitter", "facebook", "google_play">>
          /\ main_all_mentions = Contribution("twitter") \o Contribution("facebook")
                                     \o Contribution("google_play")
          /\ mpc # "deduplicate" => dedup_argument = PyList(main_all_mentions)

C15_Witness ==
    /\ ~scrapers.facebook.ok
    /\ scrapers.twitter = Returns(<<T_first, T_second>>)
    /\ scrapers.google_play = Returns(<<G_first>>)
    /\ dedup_argument = PyList(<<T_first, T_second, G_first>>)
    /\ mpc = "returned"

\* C16: once a mention has been collected, no error inside
\* deduplicate_mentions, sort_mentions_by_timestamp or get_mentions_summary
\* ends main with a non-zero exit status.
C16_NoNonZeroExit ==
    main_all_mentions # <<>> => exit_status # "1"


\* main is one thread of control: once the sink calls have returned, the
\* statements that follow them are executed
SpecMainFair ==
    SpecMain /\ WF_vars(SaveAnalyzed) /\ WF_vars(Stage4) /\ WF_vars(Exit)

\* the connection test or the append reported failure
SinkFailed == sheet_status # Missing /\ ~sheet_status.success

\* C25: after the connection test or the append has returned failure, main
\* writes the analysed mentions to analyzed_mentions.json, goes through
\* Stage 4 and returns with exit status 0.
C25_SinkFailureContinues ==
    SinkFailed ~> (/\ mpc = "returned"
                   /\ exit_status = "0"
                   /\ analyzed_file # Missing
                   /\ analyzed_file.mentions = analyzed_mentions)

\* a failed sink never leads to the except block of main
SinkFailureNeverExits ==
    SinkFailed => (mpc \in {"save", "stage4", "returned"} /\ exit_status # "1")

\* the append failed on a reachable sheet and the run completed
C25_Witness ==
    /\ mpc = "returned"
    /\ exit_status = "0"
    /\ sheet_status # Missing
    /\ sheet_status.connected /\ ~sheet_status.success
    /\ sheet_status.handed # <<>>
    /\ sheet_rows = <<>>
    /\ analyzed_file # Missing
    /\ analyzed_file.total_analyzed = Len(sheet_status.handed)


\* the composite key of a mention
PairOf(mention) == <<mention.source, mention.id>>

\* no two places of the list hold the same (source, id)
DistinctPairs(list) ==
    \A i, j \in 1..Len(list) : i # j => PairOf(list[i]) # PairOf(list[j])

\* b holds each mention as many times as a does
SameMentions(a, b) ==
    /\ Len(a) = Len(b)
    /\ \A i \in 1..Len(a) :
          Cardinality({j \in 1..Len(a) : a[j] = a[i]})
              = Cardinality({j \in 1..Len(b) : b[j] = a[i]})

\* the mentions under the annotated ones, place by place
Unannotated(analyzed) == [i \in 1..Len(analyzed) |-> Stripped(analyzed[i])]

\* the statements after the sort, up to the return
SortOver ==
    mpc \in {"summary", "stage3", "test_results", "merge", "merged",
             "no_results", "save", "stage4", "returned"}

\* C26: after deduplication the working set has pairwise distinct
\* (source, id) pairs at every later stage; the sorted list, the annotated
\* list and the list handed to the sheet hold exactly the mentions that
\* deduplicate_mentions returned, none added, none lost, none repeated.
C26_WorkingSetKept ==
    /\ DistinctPairs(deduplicated_mentions)
    /\ DistinctPairs(sorted_mentions)
    /\ DistinctPairs(analyzed_mentions)
    /\ SortOver => SameMentions(sorted_mentions, deduplicated_mentions)
    /\ Len(analyzed_mentions) <= Len(sorted_mentions)
    /\ \A i \in 1..Len(analyzed_mentions) :
          Stripped(analyzed_mentions[i]) = sorted_mentions[i]
    /\ mpc \in {"merged", "save"} =>
          SameMentions(Unannotated(analyzed_mentions), deduplicated_mentions)
    /\ (sheet_status # Missing /\ sheet_status.connected) =>
          /\ sheet_status.handed = analyzed_mentions
          /\ DistinctPairs(sheet_status.handed)
          /\ SameMentions(Unannotated(sheet_status.handed),
                           deduplicated_mentions)

\* a run that dropped a repeated mention, reordered the others and handed
\* the annotated ones to the sheet
C26_Witness ==
    /\ mpc = "returned"
    /\ Len(deduplicated_mentions) < Len(main_all_mentions)
    /\ ~DistinctPairs(main_all_mentions)
    /\ Len(deduplicated_mentions) >= 3
    /\ sorted_mentions # deduplicated_mentions
    /\ sheet_status # Missing /\ sheet_status.connected
    /\ Len(sheet_status.handed) = Len(deduplicated_mentions)
    /\ Len(sheet_rows) = Len(deduplicated_mentions)


-----------------------------------------------------------------------------
(* deduplicate_mentions: the occurrence counter and the order of the steps *)

\* the mention reaches the content hash: its text is a non-empty string
Hashed(mention) == ~TextRaises(mention) /\ TextContent(mention) # <<>>

\* the items taken so far with this text that were no identity duplicates
PastWithText(text_content) ==
    {i \in 1..Len(outcome) :
        /\ outcome[i] \notin {"identity_duplicate", "raise"}
        /\ Hashed(all_mentions[i])
        /\ TextContent(all_mentions[i]) = text_content}

\* those of them that went on to validation
PassedWithText(text_content) ==
    {i \in PastWithText(text_content) : outcome[i] # "content_duplicate"}

\* C27: every item that is no identity duplicate adds one to the occurrence
\* counter of its content hash, whether it is then kept, dropped as a content
\* duplicate or dropped as invalid: the counter of a text is the number of
\* such items seen so far.
C27_CounterCountsEveryItem ==
    pc \in {"loop", "returned"} =>
        \A i \in 1..Len(outcome) :
            (Hashed(all_mentions[i]) /\ outcome[i] # "identity_duplicate") =>
                CountOf(seen_content_hashes,
                        ContentHash(TextContent(all_mentions[i])))
                    = Cardinality(PastWithText(TextContent(all_mentions[i])))

\* what the counter holds: the items that were not dropped as duplicates
CounterCountsPassed ==
    pc \in {"loop", "returned"} =>
        \A i \in 1..Len(outcome) :
            (Hashed(all_mentions[i]) /\ outcome[i] # "identity_duplicate") =>
                CountOf(seen_content_hashes,
                        ContentHash(TextContent(all_mentions[i])))
                    = Cardinality(PassedWithText(TextContent(all_mentions[i])))


\* the item at place j is no synthetic record and has the text of item i
SameTextNotSynthetic(i, j) ==
    /\ Hashed(all_mentions[i]) /\ Hashed(all_mentions[j])
    /\ TextContent(all_mentions[i]) = TextContent(all_mentions[j])
    /\ ~CarriesMarker(all_mentions[j])

\* C28: validation runs after the keys are recorded: an item dropped as
\* invalid has recorded its identity key and its content hash, so a later
\* item with the same identity key is dropped as an identity duplicate and a
\* later non-synthetic item with the same lower-cased trimmed text is dropped
\* as a content duplicate.
C28_InvalidItemsAreRecorded ==
    \A i \in 1..Len(outcome) :
        outcome[i] = "invalid" =>
            /\ MentionId(all_mentions[i]) \in seen_ids
            /\ Hashed(all_mentions[i]) =>
                  CountOf(seen_content_hashes,
                          ContentHash(TextContent(all_mentions[i]))) >= 1
            /\ \A j \in (i + 1)..Len(outcome) :
                  /\ SameIdentity(all_mentions[i], all_mentions[j]) =>
                        outcome[j] = "identity_duplicate"
                  /\ (SameTextNotSynthetic(i, j) /\ outcome[j] # "raise") =>
                        outcome[j] \in {"identity_duplicate", "content_duplicate"}

\* an invalid item, then a valid one with its identity and a valid one with
\* its text: nothing is returned
C28_Witness ==
    /\ pc = "returned" /\ run = 1
    /\ Len(all_mentions) = 3
    /\ outcome = <<"invalid", "identity_duplicate", "content_duplicate">>
    /\ validate_mention_data(all_mentions[2]) = "True"
    /\ validate_mention_data(all_mentions[3]) = "True"
    /\ SameIdentity(all_mentions[1], all_mentions[2])
    /\ all_mentions[1].text # all_mentions[2].text
    /\ SameTextNotSynthetic(1, 3)
    /\ ~SameIdentity(all_mentions[1], all_mentions[3])
    /\ deduplicated = <<>>


\* the places of the returned list that hold this text
KeptWithText(text_content) ==
    {k \in 1..Len(deduplicated) : TextContent(deduplicated[k]) = text_content}

\* C30: whatever the order of synthetic and other records in the input, the
\* returned list holds for each lower-cased trimmed text at most 2 records
\* and at most 1 record that is not synthetic; a record that is not synthetic
\* is kept only if every earlier item with its text was an identity
\* duplicate (a synthetic record may still be kept after it).
C30_AtMostTwoPerText ==
    pc = "returned" =>
        /\ \A k \in 1..Len(deduplicated) :
              LET same == KeptWithText(TextContent(deduplicated[k]))
              IN  /\ Cardinality(same) <= MaxSimulatedCopies
                  /\ Cardinality({n \in same : ~CarriesMarker(deduplicated[n])}) <= 1
        /\ \A j \in 1..Len(outcome) :
              (outcome[j] = "kept" /\ ~CarriesMarker(all_mentions[j])) =>
                  \A i \in 1..(j - 1) :
                      (/\ Hashed(all_mentions[i])
                       /\ TextContent(all_mentions[i]) = TextContent(all_mentions[j]))
                          => outcome[i] = "identity_duplicate"

\* one text three times: the record that is not synthetic is kept, the
\* synthetic one after it is kept, the third is dropped
C30_Witness ==
    /\ pc = "returned" /\ run = 1
    /\ Len(all_mentions) = 3
    /\ \A i \in 1..3 : TextContent(all_mentions[i]) = TextContent(all_mentions[1])
    /\ ~CarriesMarker(all_mentions[1])
    /\ CarriesMarker(all_mentions[2])
    /\ CarriesMarker(all_mentions[3])
    /\ outcome = <<"kept", "kept", "content_duplicate">>
    /\ deduplicated = <<all_mentions[1], all_mentions[2]>>


-----------------------------------------------------------------------------
(* The processing functions on shared objects: two callers, each with a list
   object of its own, run deduplicate_mentions, sort_mentions_by_timestamp,
   get_mentions_summary, the merge of main and calculate_sentiment_threshold,
   their calls interleaved.  A mention is a dict object at an address of the
   heap; a list object is the sequence of the addresses it holds. *)

Callers == {1, 2}

\* the dict objects a list object refers to
Deref(objects, list) == [i \in 1..Len(list) |-> objects[list[i]]]

\* the same, each dict carrying the address it is at
Tagged(objects, list) ==
    [i \in 1..Len(list) |->
        [k \in DOMAIN objects[list[i]] \cup {"at"} |->
            IF k = "at" THEN list[i] ELSE objects[list[i]][k]]]

\* the addresses of the dicts of a list
Places(tagged) == [i \in 1..Len(tagged) |-> tagged[i].at]

\* deduplicate_mentions(all_mentions): reads the dicts, appends the kept ones
\* (the objects themselves) to a new list
DeduplicateCall(objects, list) ==
    [objects |-> objects, argument |-> list,
     returned |-> Places(deduplicate_mentions(Tagged(objects, list)).returned)]

\* sort_mentions_by_timestamp(mentions): sorted() builds a new list of the
\* same objects; the except branch returns the argument
SortedCall(objects, list) ==
    [objects |-> objects, argument |-> list,
     returned |->
         Places(sort_mentions_by_timestamp(Tagged(objects, list), TRUE).returned)]

\* 'processed_at': datetime.now().isoformat() in the summary of a list that
\* is not empty
WithProcessedAt(result, at) ==
    IF result.raised \/ result.total_mentions = 0 THEN result
    ELSE [k \in DOMAIN result \cup {"processed_at"} |->
             IF k = "processed_at" THEN at ELSE result[k]]

\* get_mentions_summary(mentions): reads the dicts and the clock
SummaryCall(objects, list, at) ==
    [objects |-> objects, argument |-> list,
     returned |-> WithProcessedAt(get_mentions_summary(Deref(objects, list)), at)]

\* the merge loop of main: mention.copy() is a new dict object, the
\* sentiment fields are set on it
MergeCall(objects, list) ==
    LET found == analyze_sentiment(
                     [i \in 1..Len(list) |-> TextForAnalysis(objects[list[i]])],
                     [loads |-> TRUE, failing |-> {}])
        copies == [i \in 1..Len(list) |->
                      AnnotateMention(objects[list[i]], i, found)]
    IN  [objects |-> objects \o copies, argument |-> list,
         returned |-> [i \in 1..Len(list) |-> Len(objects) + i]]

\* calculate_sentiment_threshold(sentiment_results): reads the dicts, collects
\* and sorts the negative ones in lists of its own
ThresholdCall(objects, list) ==
    [objects |-> objects, argument |-> list,
     returned |-> calculate_sentiment_threshold(Deref(objects, list),
                                                PyRatio(1, 5))]

-----------------------------------------------------------------------------
(* SpecFrame: the calls of two callers on independent inputs, interleaved *)

MaxFrameItems == 2

FramePool ==
    {T_first, T_second, F_zulu,
     Mention(PyStr(S_twitter), PyStr(S_id1), PyStr(TX_b), PyStr(TS_micro))}

NothingYet ==
    [deduplicated |-> <<>>, sorted |-> <<>>, summary |-> Missing,
     analyzed |-> <<>>, threshold |-> Missing]

InitFrame ==
    /\ \E first, second \in SeqsUpTo(FramePool, MaxFrameItems) :
          /\ heap = first \o second
          /\ call_lists = <<[i \in 1..Len(first) |-> i],
                            [i \in 1..Len(second) |-> Len(first) + i]>>
    /\ call_stage = [c \in Callers |-> "deduplicate"]
    /\ call_results = [c \in Callers |-> NothingYet]
    /\ clock_now = 0
    /\ heap_given = [objects |-> heap, lists |-> call_lists]
    /\ ValidateIdle /\ DedupIdle /\ ThresholdIdle
    /\ MainIdle /\ SortIdle /\ SummaryIdle /\ AnalyzeIdle /\ SinkIdle

\* what a call leaves behind: the objects, the list object it was given, the
\* value it returned, and the time it took
Returning(c, call, argument, field, next) ==
    /\ heap' = call.objects
    /\ call_lists' = IF argument = "given"
                     THEN [call_lists EXCEPT ![c] = call.argument]
                     ELSE call_lists
    /\ call_results' =
           [call_results EXCEPT
               ![c] = [k \in DOMAIN call_results[c] |->
                          IF k = field THEN call.returned
                          ELSE IF k = argument THEN call.argument
                          ELSE call_results[c][k]]]
    /\ call_stage' = [call_stage EXCEPT ![c] = next]
    /\ clock_now' = clock_now + 1
    /\ UNCHANGED <<heap_given, notFrame>>

CallDeduplicate(c) ==
    /\ call_stage[c] = "deduplicate"
    /\ Returning(c, DeduplicateCall(heap, call_lists[c]), "given",
                 "deduplicated", "sort")

CallSort(c) ==
    /\ call_stage[c] = "sort"
    /\ Returning(c, SortedCall(heap, call_results[c].deduplicated),
                 "deduplicated", "sorted", "summary")

CallSummary(c) ==
    /\ call_stage[c] = "summary"
    /\ Returning(c, SummaryCall(heap, call_results[c].sorted, clock_now),
                 "sorted", "summary", "merge")

CallMerge(c) ==
    /\ call_stage[c] = "merge"
    /\ Returning(c, MergeCall(heap, call_results[c].sorted),
                 "sorted", "analyzed", "threshold")

CallThreshold(c) ==
    /\ call_stage[c] = "threshold"
    /\ Returning(c, ThresholdCall(heap, call_results[c].analyzed),
                 "analyzed", "threshold", "done")

NextFrame ==
    \E c \in Callers :
        \/ CallDeduplicate(c)
        \/ CallSort(c)
        \/ CallSummary(c)
        \/ CallMerge(c)
        \/ CallThreshold(c)

SpecFrame == InitFrame /\ [][NextFrame]_vars

\* the calls a caller has made, in order
StageOrder == <<"deduplicate", "sort", "summary", "merge", "threshold", "done">>

StageRank(stage) == CHOOSE n \in 1..Len(StageOrder) : StageOrder[n] = stage

\* caller c has the result of the call made at this stage
Has(c, stage) == StageRank(call_stage[c]) > StageRank(stage)

\* the list objects and the dict objects handed over are as they were
FrameKept ==
    /\ call_lists = heap_given.lists
    /\ \A a \in 1..Len(heap_given.objects) : heap[a] = heap_given.objects[a]
    /\ \A c \in Callers :
          /\ Has(c, "sort") =>
                Deref(heap, call_results[c].deduplicated)
                    = deduplicate_mentions(Deref(heap_given.objects,
                                                 heap_given.lists[c])).returned
          /\ Has(c, "threshold") =>
                Deref(heap, call_results[c].sorted)
                    = sort_mentions_by_timestamp(
                          Deref(heap, call_results[c].deduplicated), TRUE).returned

\* the annotated mentions are new objects; the objects under them are as the
\* Deduplicator returned them
MergedOnCopies ==
    \A c \in Callers :
        Has(c, "merge") =>
            /\ Len(call_results[c].analyzed) = Len(call_results[c].sorted)
            /\ \A i \in 1..Len(call_results[c].analyzed) :
                  LET copy == call_results[c].analyzed[i]
                      under == call_results[c].sorted[i]
                  IN  /\ copy > Len(heap_given.objects)
                      /\ Stripped(heap[copy]) = heap[under]
                      /\ heap[under] = heap_given.objects[under]
                      /\ "sentiment_label" \notin DOMAIN heap[under]

\* the callers were handed lists of equal mentions
SameArguments(c, d) ==
    Deref(heap_given.objects, heap_given.lists[c])
        = Deref(heap_given.objects, heap_given.lists[d])

WithoutClock(result) == [k \in DOMAIN result \ {"processed_at"} |-> result[k]]

\* on equal arguments the calls of two callers returned equal lists and an
\* equal threshold result
SameLists(c, d) ==
    /\ (Has(c, "deduplicate") /\ Has(d, "deduplicate")) =>
          Deref(heap, call_results[c].deduplicated)
              = Deref(heap, call_results[d].deduplicated)
    /\ (Has(c, "sort") /\ Has(d, "sort")) =>
          Deref(heap, call_results[c].sorted) = Deref(heap, call_results[d].sorted)
    /\ (Has(c, "threshold") /\ Has(d, "threshold")) =>
          call_results[c].threshold = call_results[d].threshold

\* C29: deduplicate_mentions, sort_mentions_by_timestamp, get_mentions_summary
\* and calculate_sentiment_threshold leave the list and the mentions they are
\* given unchanged and keep nothing between calls: interleaved calls on equal
\* arguments return equal results; the merge sets the sentiment fields on a
\* copy of each mention, not on the deduplicated record.
C29_PureAndFramed ==
    /\ FrameKept
    /\ MergedOnCopies
    /\ \A c, d \in Callers :
          SameArguments(c, d) =>
              /\ SameLists(c, d)
              /\ (Has(c, "summary") /\ Has(d, "summary")) =>
                    call_results[c].summary = call_results[d].summary

\* what holds of the results: they are equal apart from the time of the call
\* that get_mentions_summary writes into the summary
PureApartFromClock ==
    \A c, d \in Callers :
        SameArguments(c, d) =>
            /\ SameLists(c, d)
            /\ (Has(c, "summary") /\ Has(d, "summary")) =>
                  WithoutClock(call_results[c].summary)
                      = WithoutClock(call_results[d].summary)

\* two callers with equal lists of two mentions: both summaries are there and
\* differ in nothing but processed_at
SummaryTimesDiffer ==
    /\ SameArguments(1, 2)
    /\ Len(heap_given.lists[1]) = 2
    /\ Has(1, "summary") /\ Has(2, "summary")
    /\ ~call_results[1].summary.raised
    /\ call_results[1].summary # call_results[2].summary

====
